---- MODULE Spec2Model ----
(***************************************************************************)
(* Model of feetech-servo-ts: the packet codec (PacketHandler), the serial *)
(* port handler with its background receiver (WebSerialPortHandler), the   *)
(* transaction engine (ProtocolHandler.sendAndReceive and the operations   *)
(* built on it) and the group operations (GroupSyncRead/GroupSyncWrite).   *)
(*                                                                         *)
(* Bytes are naturals in 0..255.  A byte array (Uint8Array) is a sequence; *)
(* the source's 0-based index i is the sequence index i + 1.               *)
(***************************************************************************)
EXTENDS Naturals, Integers, Sequences, FiniteSets, TLC

VARIABLES
  \* ---- codec harness: inputs of the pure functions and their outputs
  cStage,      \* "input" | "encoded" | "flipped" | "raw" | "decoded"
  cSrc,        \* what was decoded: "encoded" | "flipped" | "raw" ("none" before)
  cId,         \* id argument of createPacket
  cByte4,      \* instruction argument of createPacket (the error byte of a reply)
  cParams,     \* parameters argument of createPacket
  cPacket,     \* the byte array under examination
  cFlip,       \* 0-based index of the byte changed in cPacket, or -1
  cOut,        \* outcome of parsePacket(cPacket)
  helper       \* the last call of a utils/helpers.ts function and its result

codecVars == <<cStage, cSrc, cId, cByte4, cParams, cPacket, cFlip, cOut, helper>>

VARIABLES
  \* ---- WebSerialPortHandler and FeetechServo
  isOpen,      \* WebSerialPortHandler.isOpen (reader, writer and port are set with it)
  isConnected, \* FeetechServo.isConnected
  readBuffer,  \* WebSerialPortHandler.readBuffer
  \* ---- the bus
  inbound,     \* bytes on their way to the host that the receiver has not read yet
  silent,      \* the ids of the devices that never answer
  noise,       \* the garbage bytes the bus has injected, oldest first
  writerErrored, \* the port's writable stream has errored: writer.write rejects
  \* ---- callers
  op,          \* per caller: the operation it runs and where that is suspended
  started,     \* number of operations started
  \* ---- sync/group-sync-read.ts
  gr,          \* the GroupSyncRead object and where its txRxPacket is suspended
  \* ---- sync/group-sync-write.ts
  gw           \* the GroupSyncWrite object and where its txPacket is suspended

portVars == <<isOpen, isConnected, readBuffer>>
busVars == <<inbound, silent, noise, writerErrored>>
callVars == <<op, started>>
groupVars == <<gr, gw>>
engineVars == <<portVars, busVars, callVars, groupVars>>

vars == <<codecVars, engineVars>>

----------------------------------------------------------------------------
(* core/constants.ts *)

BROADCAST_ID == 254
HEADER_LENGTH == 2
ID_LENGTH == 1
LENGTH_LENGTH == 1
INSTRUCTION_LENGTH == 1
CHECKSUM_LENGTH == 1
MIN_PACKET_LENGTH ==
  HEADER_LENGTH + ID_LENGTH + LENGTH_LENGTH + INSTRUCTION_LENGTH + CHECKSUM_LENGTH
HEADER == <<255, 255>>

(* types/index.ts: enum Instruction *)
PING == 1
READ == 2
WRITE == 3
FACTORY_RESET == 6
REBOOT == 8
SYNC_READ == 130
SYNC_WRITE == 131

----------------------------------------------------------------------------
(* utils/helpers.ts: clampPosition and clampSpeed *)

\* Math.min and Math.max
Min(a, b) == IF a < b THEN a ELSE b
Max(a, b) == IF a > b THEN a ELSE b

MIN_POSITION_VALUE == 0
MAX_POSITION_VALUE == 4095
MIN_SPEED_VALUE == 0
MAX_SPEED_VALUE == 1023

\* types/models.ts: the models that have a configuration
MotorModels == {"scs_series", "sts3215", "sms_series"}

MODEL_CONFIGS ==
  [model \in MotorModels |->
     [resolution |-> 4096, maxPosition |-> 4095, minPosition |-> 0,
      defaultBaudRate |-> 1000000]]

getModelMaxPosition(model) ==
  IF model \in MotorModels THEN MODEL_CONFIGS[model].maxPosition ELSE MAX_POSITION_VALUE

getModelMinPosition(model) ==
  IF model \in MotorModels THEN MODEL_CONFIGS[model].minPosition ELSE MIN_POSITION_VALUE

clampPosition(position, model) ==
  Max(getModelMinPosition(model), Min(getModelMaxPosition(model), position))

clampSpeed(speed) == Max(MIN_SPEED_VALUE, Min(MAX_SPEED_VALUE, speed))

\* No helper has been called yet.
NoHelperCall == [fn |-> "none", model |-> "scs_series", arg |-> 0, out |-> 0]

----------------------------------------------------------------------------
(* Byte arrays *)

\* A store into a Uint8Array element keeps the low 8 bits.
U8(x) == x % 256


\* Uint8Array.prototype.slice(from, to), 0-based, end exclusive, clamped.
Slice(data, from, to) ==
  LET lo == Min(Max(from, 0), Len(data))
      hi == Min(Max(to, 0), Len(data))
  IN IF lo >= hi THEN <<>> ELSE SubSeq(data, lo + 1, hi)

\* data[i], 0-based; reading past the end gives undefined (modelled as -1).
At(data, i) == IF i >= 0 /\ i < Len(data) THEN data[i + 1] ELSE -1

\* for (const byte of data) sum += byte, from index lo to hi (1-based, inclusive)
RECURSIVE SumRange(_, _, _)
SumRange(data, lo, hi) ==
  IF lo > hi THEN 0
  ELSE IF lo = hi THEN data[lo]
  ELSE LET mid == (lo + hi) \div 2
       IN SumRange(data, lo, mid) + SumRange(data, mid + 1, hi)

SumBytes(data) == SumRange(data, 1, Len(data))

\* Bit `bit` (a power of two) of byte e: e & bit.
BitSet(e, bit) == (e \div bit) % 2 = 1

----------------------------------------------------------------------------
(* core/packet-handler.ts: PacketHandler *)

\* mutant: the two's complement (-sum) & 0xFF instead of the one's complement
calculateChecksum_Negate(data) == (256 - (SumBytes(data) % 256)) % 256

\* mutant: the sum starts after the id byte
calculateChecksum_SkipId(data) == 255 - (SumBytes(Tail(data)) % 256)

\* (~sum) & 0xFF
calculateChecksum(data) == 255 - (SumBytes(data) % 256)

\* mutant: the length field counts one byte too many
createPacket_LengthPlus3(id, instruction, parameters) ==
  LET paramLength == Len(parameters)
      packetLength == MIN_PACKET_LENGTH + paramLength
      body == <<U8(id), U8(paramLength + 3), U8(instruction)>> \o parameters
      packet == HEADER \o body \o <<0>>
      checksum == calculateChecksum(Slice(packet, 2, packetLength - 1))
  IN HEADER \o body \o <<checksum>>

\* mutant: the checksum also covers the two header bytes
createPacket_SumHeader(id, instruction, parameters) ==
  LET paramLength == Len(parameters)
      packetLength == MIN_PACKET_LENGTH + paramLength
      body == <<U8(id), U8(paramLength + 2), U8(instruction)>> \o parameters
      packet == HEADER \o body \o <<0>>
      checksum == calculateChecksum(Slice(packet, 0, packetLength - 1))
  IN HEADER \o body \o <<checksum>>

createPacket(id, instruction, parameters) ==
  LET paramLength == Len(parameters)
      packetLength == MIN_PACKET_LENGTH + paramLength
      body == <<U8(id), U8(paramLength + 2), U8(instruction)>> \o parameters
      packet == HEADER \o body \o <<0>>
      checksum == calculateChecksum(Slice(packet, 2, packetLength - 1))
  IN HEADER \o body \o <<checksum>>

\* The outcome of a call: a ResponsePacket, or the ServoError thrown.
\* message holds the conditions an error's message text names.
Response(id, length, error, parameters, checksum) ==
  [ok |-> TRUE, code |-> "OK", deviceId |-> -1, id |-> id, instruction |-> 0,
   parameters |-> parameters, length |-> length, error |-> error,
   checksum |-> checksum, message |-> {}]

ServoError(code, deviceId) ==
  [ok |-> FALSE, code |-> code, deviceId |-> deviceId, id |-> -1,
   instruction |-> 0, parameters |-> <<>>, length |-> -1, error |-> -1,
   checksum |-> -1, message |-> {}]

\* No call has been made yet.
NoOutcome == ServoError("NONE", -1)

parsePacket(data) ==
  IF Len(data) < MIN_PACKET_LENGTH THEN ServoError("INVALID_RESPONSE", -1)
  ELSE IF At(data, 0) # HEADER[1] \/ At(data, 1) # HEADER[2]
  THEN ServoError("INVALID_RESPONSE", -1)
  ELSE
    LET id == At(data, 2)
        length == At(data, 3)
        error == At(data, 4)
        expectedPacketLength == HEADER_LENGTH + ID_LENGTH + LENGTH_LENGTH + length
    IN IF Len(data) < expectedPacketLength
       THEN ServoError("INVALID_RESPONSE", -1)
       ELSE
         LET paramLength == length - 2
             parameters == IF paramLength > 0
                           THEN Slice(data, 5, 5 + paramLength)
                           ELSE <<>>
             receivedChecksum == At(data, expectedPacketLength - 1)
             calculatedChecksum ==
               calculateChecksum(Slice(data, 2, expectedPacketLength - 1))
         IN IF receivedChecksum # calculatedChecksum
            THEN ServoError("CHECKSUM_ERROR", id)
            ELSE Response(id, length, error, parameters, receivedChecksum)

createPingPacket(id) == createPacket(id, PING, <<>>)

createReadPacket(id, address, length) ==
  createPacket(id, READ, <<U8(address), U8(length)>>)

createWritePacket(id, address, data) ==
  createPacket(id, WRITE, <<U8(address)>> \o data)

\* The id and the value bytes of every item, one item after the other.
RECURSIVE SyncWriteItems(_)
SyncWriteItems(data) ==
  IF data = <<>> THEN <<>>
  ELSE <<U8(data[1].id)>> \o data[1].values \o SyncWriteItems(Tail(data))

\* A packet whose parameters leave out the length byte.
createSyncWritePacket_NoLength(address, length, data) ==
  createPacket(BROADCAST_ID, SYNC_WRITE, <<U8(address)>> \o SyncWriteItems(data))

createSyncWritePacket(address, length, data) ==
  createPacket(BROADCAST_ID, SYNC_WRITE,
               <<U8(address), U8(length)>> \o SyncWriteItems(data))

createSyncReadPacket(address, length, ids) ==
  createPacket(BROADCAST_ID, SYNC_READ, <<U8(address), U8(length)>> \o ids)

\* The names of the conditions whose bit is set in the error byte.
ErrorNames(error) ==
  {n \in {"voltage", "angle", "overheat", "range", "checksum", "overload",
          "instruction"} :
     \/ n = "voltage" /\ BitSet(error, 1)
     \/ n = "angle" /\ BitSet(error, 2)
     \/ n = "overheat" /\ BitSet(error, 4)
     \/ n = "range" /\ BitSet(error, 8)
     \/ n = "checksum" /\ BitSet(error, 16)
     \/ n = "overload" /\ BitSet(error, 32)
     \/ n = "instruction" /\ BitSet(error, 64)}

\* checkError(packet): the packet itself, or the HARDWARE_ERROR thrown.
checkError(packet) ==
  IF packet.error = 0 THEN packet
  ELSE IF ErrorNames(packet.error) # {}
       THEN [ServoError("HARDWARE_ERROR", packet.id) EXCEPT
               !.message = ErrorNames(packet.error)]
       ELSE packet

getPacketLength(data) ==
  IF Len(data) < 4 THEN -1
  ELSE HEADER_LENGTH + ID_LENGTH + LENGTH_LENGTH + At(data, 3)

----------------------------------------------------------------------------
(* The bus: devices and the registers they report *)

TimeoutMs == 1
MaxOps == 2
Procs == {1, 2}
Devices == {1, 2, 3}
DeviceErrors == {0}

\* The byte a device holds at a register address.
Mem(id, address) == U8(16 * id + address)

MemBytes(id, address, length) == [i \in 1..length |-> Mem(id, address + i - 1)]

RECURSIVE SyncReadReplies(_, _, _, _, _)
SyncReadReplies(ids, address, length, quiet, error) ==
  IF ids = <<>> THEN <<>>
  ELSE (IF ids[1] \in Devices \ quiet
        THEN createPacket(ids[1], error, MemBytes(ids[1], address, length))
        ELSE <<>>)
       \o SyncReadReplies(Tail(ids), address, length, quiet, error)

\* The status frames the devices put on the bus in answer to a request packet.
DeviceReply(packet, quiet, error) ==
  LET id == At(packet, 2)
      instruction == At(packet, 4)
      params == Slice(packet, 5, Len(packet) - 1)
  IN IF instruction = SYNC_READ /\ id = BROADCAST_ID
     THEN SyncReadReplies(Slice(params, 2, Len(params)), params[1], params[2],
                          quiet, error)
     ELSE IF id \notin Devices \ quiet THEN <<>>
     ELSE IF instruction = READ
     THEN createPacket(id, error, MemBytes(id, params[1], params[2]))
     ELSE createPacket(id, error, <<>>)

----------------------------------------------------------------------------
(* core/port-handler.ts and core/protocol-handler.ts: one transaction *)

\* elapsed is Date.now() - startTime of the wait the call is suspended in; age
\* is the time since the transaction's request was written.
\* arg is the newId of setID, the baudRate of setBaudRate or the position of
\* writePosition; speed is the speed of writePosition.
\* startId, endId and found belong to scan: the range and the results pushed
\* so far; late records that a PING of the scan timed out while bytes
\* were still on their way or unread.
IdleOp ==
  [pc |-> "idle", kind |-> "none", stage |-> 0, id |-> 0, address |-> 0,
   length |-> 0, packet |-> <<>>, elapsed |-> 0, age |-> 0,
   headerAndLen |-> <<>>, sent |-> <<>>, out |-> NoOutcome, value |-> <<>>,
   startId |-> 0, endId |-> 0, found |-> <<>>, late |-> FALSE, arg |-> 0,
   speed |-> -1]

Waiting == {"hdrWait", "readHdr", "readPayload"}

makeWord(lowByte, highByte) == highByte * 256 + lowByte

\* Where the receive loop stands after running from suspend point pc until it
\* sleeps again ("hdrWait", "readHdr", "readPayload"), has the whole packet
\* ("parsed") or throws ("failed").
Recv(pc, hdr, buf, full, err) ==
  [pc |-> pc, hdr |-> hdr, buf |-> buf, full |-> full, err |-> err]

\* h[0] === 0xFF && h[1] === 0xFF on the two bytes peeked
IsHeader(h) == h[1] = 255 /\ h[2] = 255

RECURSIVE ReceiveLoop(_, _, _, _)
ReceiveLoop(pc, hdr, buf, open) ==
  CASE pc = "hdrWait" ->
         \* waitForData(buf => buf.length >= 2); peekBuffer(2); read(1)
         IF Len(buf) < 2 THEN Recv("hdrWait", hdr, buf, <<>>, NoOutcome)
         ELSE IF IsHeader(Slice(buf, 0, 2))
         THEN ReceiveLoop("enterReadHdr", hdr, buf, open)
         ELSE IF ~open
         THEN Recv("failed", hdr, buf, <<>>, ServoError("CONNECTION_LOST", -1))
         ELSE ReceiveLoop("hdrWait", hdr, Tail(buf), open)
    [] pc = "enterReadHdr" ->
         \* read(4): the connection is checked on entry only
         IF ~open
         THEN Recv("failed", hdr, buf, <<>>, ServoError("CONNECTION_LOST", -1))
         ELSE ReceiveLoop("readHdr", hdr, buf, open)
    [] pc = "readHdr" ->
         IF Len(buf) < 4 THEN Recv("readHdr", hdr, buf, <<>>, NoOutcome)
         ELSE ReceiveLoop("enterReadPayload", Slice(buf, 0, 4),
                          Slice(buf, 4, Len(buf)), open)
    [] pc = "enterReadPayload" ->
         \* getPacketLength(headerAndLen); read(pktLen - 4)
         IF getPacketLength(hdr) = -1
         THEN Recv("failed", hdr, buf, <<>>, ServoError("INVALID_RESPONSE", -1))
         ELSE IF ~open
         THEN Recv("failed", hdr, buf, <<>>, ServoError("CONNECTION_LOST", -1))
         ELSE ReceiveLoop("readPayload", hdr, buf, open)
    [] pc = "readPayload" ->
         LET n == getPacketLength(hdr) - 4
         IN IF Len(buf) < n THEN Recv("readPayload", hdr, buf, <<>>, NoOutcome)
            ELSE Recv("parsed", hdr, Slice(buf, n, Len(buf)),
                      hdr \o Slice(buf, 0, n), NoOutcome)

\* The wait at suspend point pc is satisfied by the buffer.
Ready(pc, hdr, buf) ==
  CASE pc = "hdrWait" -> Len(buf) >= 2
    [] pc = "readHdr" -> Len(buf) >= 4
    [] pc = "readPayload" -> Len(buf) >= getPacketLength(hdr) - 4
    [] OTHER -> FALSE

\* A validation that looks at the error bits before it looks at the id.
Validate_ErrorsFirst(fullPacket, expectedId) ==
  LET response == parsePacket(fullPacket)
  IN IF ~response.ok THEN response
     ELSE IF ~checkError(response).ok THEN checkError(response)
     ELSE IF response.id # expectedId THEN ServoError("INVALID_RESPONSE", -1)
     ELSE response

\* sendAndReceive after the packet is complete: parse, verify the id, check errors.
Validate(fullPacket, expectedId) ==
  LET response == parsePacket(fullPacket)
  IN IF ~response.ok THEN response
     ELSE IF response.id # expectedId THEN ServoError("INVALID_RESPONSE", -1)
     ELSE checkError(response)

\* The request packet of an operation's transaction.
RequestPacket(kind, stage, id, address, length, data) ==
  CASE kind \in {"ping", "scan"} /\ stage = 0 -> createPingPacket(id)
    [] kind \in {"ping", "scan"} /\ stage = 1 -> createReadPacket(id, 3, 2)
    [] kind \in {"ping", "scan"} /\ stage = 2 -> createReadPacket(id, 2, 1)
    [] kind = "read" -> createReadPacket(id, address, length)
    [] kind = "write" -> createWritePacket(id, address, data)
    [] kind = "factoryReset" -> createPacket(id, FACTORY_RESET, <<>>)
    [] kind = "reboot" -> createPacket(id, REBOOT, <<>>)

Done(o, out, value) ==
  [o EXCEPT !.pc = "done", !.out = out, !.value = value, !.packet = <<>>,
            !.elapsed = 0, !.age = 0, !.headerAndLen = <<>>]

\* sendAndReceive of the next transaction of the same operation: flush() runs at once.
NextStage(o, stage, value) ==
  [o EXCEPT !.pc = "write", !.stage = stage, !.value = value,
            !.packet = RequestPacket(o.kind, stage, o.id, 0, 0, <<>>),
            !.elapsed = 0, !.age = 0, !.headerAndLen = <<>>]

\* PingResult
PingResult(id, modelNumber, firmwareVersion) ==
  [id |-> id, modelNumber |-> modelNumber, firmwareVersion |-> firmwareVersion]

\* scan after the ping of o.id returned (pushed holds its result) or threw
\* (pushed is empty): the loop goes on to the next id, whose ping throws at
\* once in ensureConnected() while the facade is not connected, and scan
\* returns after endId.
RECURSIVE ScanNext(_, _)
ScanNext(o, pushed) ==
  LET n == [o EXCEPT !.found = @ \o pushed]
  IN IF n.id >= n.endId
     THEN [o |-> Done(n, Response(-1, -1, 0, <<>>, -1), <<>>), flush |-> FALSE]
     ELSE IF ~(isConnected /\ isOpen)
     THEN ScanNext([n EXCEPT !.id = @ + 1], <<>>)
     ELSE [o |-> NextStage([n EXCEPT !.id = @ + 1], 0, <<>>), flush |-> TRUE]

\* A readData that takes whatever the response carries.
ReadOutcome_NoLengthCheck(out, id, length) == out

\* readData: the response must carry at least `length` parameter bytes.
ReadOutcome(out, id, length) ==
  IF out.ok /\ Len(out.parameters) < length
  THEN ServoError("INVALID_RESPONSE", id)
  ELSE out

\* An operation whose ping fails when a follow-up read fails.
Finish_PingStrict(o, out) ==
  CASE o.kind = "read" ->
         LET r == ReadOutcome(out, o.id, o.length)
         IN [o |-> Done(o, r, IF r.ok THEN Slice(r.parameters, 0, o.length) ELSE <<>>),
             flush |-> FALSE]
    [] o.kind \in {"write", "setID", "setBaudRate", "writePosition"} ->
         IF out.ok
         THEN [o |-> [o EXCEPT !.pc = "settle", !.out = out, !.packet = <<>>,
                               !.elapsed = 0, !.age = 0, !.headerAndLen = <<>>],
               flush |-> FALSE]
         ELSE [o |-> Done(o, out, <<>>), flush |-> FALSE]
    [] o.kind \in {"factoryReset", "reboot"} ->
         IF out.ok
         THEN [o |-> [o EXCEPT !.pc = "settle", !.out = out, !.packet = <<>>,
                               !.elapsed = 0, !.age = 0, !.headerAndLen = <<>>],
               flush |-> FALSE]
         ELSE [o |-> Done(o, out, <<>>), flush |-> FALSE]
    [] o.kind = "ping" /\ o.stage = 0 ->
         IF out.ok
         THEN [o |-> NextStage([o EXCEPT !.out = out], 1, <<0, 0>>), flush |-> TRUE]
         ELSE [o |-> Done(o, out, <<>>), flush |-> FALSE]
    [] o.kind = "ping" /\ o.stage = 1 ->
         LET r == ReadOutcome(out, o.id, 2)
         IN IF r.ok
            THEN [o |-> NextStage(o, 2, <<makeWord(r.parameters[1], r.parameters[2]), 0>>),
                  flush |-> TRUE]
            ELSE [o |-> Done(o, r, <<>>), flush |-> FALSE]
    [] o.kind = "ping" /\ o.stage = 2 ->
         LET r == ReadOutcome(out, o.id, 1)
         IN IF r.ok
            THEN [o |-> Done(o, o.out, <<o.value[1], r.parameters[1]>>), flush |-> FALSE]
            ELSE [o |-> Done(o, r, <<>>), flush |-> FALSE]
    [] o.kind = "scan" ->
         LET r == IF o.stage = 0 THEN out
                  ELSE ReadOutcome(out, o.id, IF o.stage = 1 THEN 2 ELSE 1)
             lost == /\ o.stage = 0 /\ out.code = "TIMEOUT"
                     /\ (inbound # <<>> \/ readBuffer # <<>>)
         IN IF o.stage = 0 /\ r.ok
            THEN [o |-> NextStage(o, 1, <<0, 0>>), flush |-> TRUE]
            ELSE IF o.stage = 1 /\ r.ok
            THEN [o |-> NextStage(o, 2, <<makeWord(r.parameters[1], r.parameters[2]), 0>>),
                  flush |-> TRUE]
            ELSE ScanNext([o EXCEPT !.late = @ \/ lost],
                          IF o.stage = 0 THEN <<>>
                          ELSE <<PingResult(o.id, o.value[1],
                                            IF r.ok THEN r.parameters[1] ELSE 0)>>)

\* The operation after its current transaction ended with `out` (the response
\* sendAndReceive returns, or the error it throws): [o: the caller, flush: whether
\* the next transaction's flush() has run].
Finish(o, out) ==
  CASE o.kind = "read" ->
         LET r == ReadOutcome(out, o.id, o.length)
         IN [o |-> Done(o, r, IF r.ok THEN Slice(r.parameters, 0, o.length) ELSE <<>>),
             flush |-> FALSE]
    [] o.kind \in {"write", "setID", "setBaudRate", "writePosition"} ->
         IF out.ok
         THEN [o |-> [o EXCEPT !.pc = "settle", !.out = out, !.packet = <<>>,
                               !.elapsed = 0, !.age = 0, !.headerAndLen = <<>>],
               flush |-> FALSE]
         ELSE [o |-> Done(o, out, <<>>), flush |-> FALSE]
    [] o.kind \in {"factoryReset", "reboot"} ->
         IF out.ok
         THEN [o |-> [o EXCEPT !.pc = "settle", !.out = out, !.packet = <<>>,
                               !.elapsed = 0, !.age = 0, !.headerAndLen = <<>>],
               flush |-> FALSE]
         ELSE [o |-> Done(o, out, <<>>), flush |-> FALSE]
    [] o.kind = "ping" /\ o.stage = 0 ->
         IF out.ok
         THEN [o |-> NextStage([o EXCEPT !.out = out], 1, <<0, 0>>), flush |-> TRUE]
         ELSE [o |-> Done(o, out, <<>>), flush |-> FALSE]
    [] o.kind = "ping" /\ o.stage = 1 ->
         LET r == ReadOutcome(out, o.id, 2)
         IN IF r.ok
            THEN [o |-> NextStage(o, 2, <<makeWord(r.parameters[1], r.parameters[2]), 0>>),
                  flush |-> TRUE]
            ELSE [o |-> Done(o, o.out, o.value), flush |-> FALSE]
    [] o.kind = "ping" /\ o.stage = 2 ->
         LET r == ReadOutcome(out, o.id, 1)
         IN IF r.ok
            THEN [o |-> Done(o, o.out, <<o.value[1], r.parameters[1]>>), flush |-> FALSE]
            ELSE [o |-> Done(o, o.out, o.value), flush |-> FALSE]
    [] o.kind = "scan" ->
         LET r == IF o.stage = 0 THEN out
                  ELSE ReadOutcome(out, o.id, IF o.stage = 1 THEN 2 ELSE 1)
             lost == /\ o.stage = 0 /\ out.code = "TIMEOUT"
                     /\ (inbound # <<>> \/ readBuffer # <<>>)
         IN IF o.stage = 0 /\ r.ok
            THEN [o |-> NextStage(o, 1, <<0, 0>>), flush |-> TRUE]
            ELSE IF o.stage = 1 /\ r.ok
            THEN [o |-> NextStage(o, 2, <<makeWord(r.parameters[1], r.parameters[2]), 0>>),
                  flush |-> TRUE]
            ELSE ScanNext([o EXCEPT !.late = @ \/ lost],
                          IF o.stage = 0 THEN <<>>
                          ELSE <<PingResult(o.id, o.value[1],
                                            IF r.ok THEN r.parameters[1] ELSE 0)>>)

\* No method of the object has been called yet.
NoCall == [call |-> "none", id |-> -1, data |-> <<>>, out |-> NoOutcome]

\* new GroupSyncWrite(portHandler, address, dataLength).  entries is the data map
\* in its iteration order, pc is where txPacket stands ("done" right after it
\* returned or threw), last is the latest method call and what it returned or
\* threw; sent, flushes and out are the packets written, the flush() calls and
\* the result of the latest txPacket, kept until the next method call; prev is
\* the packet the txPacket before the latest wrote, kept until the next
\* addParam, removeParam or clearParam.
NewGroupSyncWrite ==
  [entries |-> <<>>, pc |-> "idle", packet |-> <<>>, sent |-> <<>>, flushes |-> 0,
   out |-> NoOutcome, last |-> NoCall, runs |-> 0, prev |-> <<>>]

\* new GroupSyncRead(portHandler, address, dataLength).  pc is where txRxPacket
\* stands: "done" right after it returned or threw, "idle" once another method
\* has been called since.  late records that a receive timed out while reply
\* bytes were still on their way or unread.  tried lists the ids readResponse
\* was called for in the latest txRxPacket and outs what each call returned or
\* threw.  What is recorded about an execution is kept until the next method
\* call.
NewGroupSyncRead ==
  [idList |-> <<>>, dataMap |-> <<>>, pc |-> "idle", ids |-> <<>>, idx |-> 0,
   packet |-> <<>>, elapsed |-> 0, headerAndLen |-> <<>>, sent |-> <<>>,
   out |-> NoOutcome, runs |-> 0, late |-> FALSE, tried |-> <<>>, outs |-> <<>>,
   flushes |-> 0]

InitEngine ==
  /\ isOpen = FALSE
  /\ isConnected = FALSE
  /\ readBuffer = <<>>
  /\ inbound = <<>>
  /\ noise = <<>>
  /\ writerErrored = FALSE
  /\ op = [p \in Procs |-> IdleOp]
  /\ started = 0
  /\ gr = NewGroupSyncRead
  /\ gw = NewGroupSyncWrite

\* FeetechServo.connect -> WebSerialPortHandler.connect
Connect ==
  /\ ~isOpen /\ ~isConnected
  /\ isOpen' = TRUE
  /\ isConnected' = TRUE
  /\ writerErrored' = FALSE
  /\ UNCHANGED <<readBuffer, inbound, silent, noise, op, started, codecVars, groupVars>>

\* FeetechServo.disconnect -> WebSerialPortHandler.disconnect, up to its first
\* suspension: isOpen = false, then reader.cancel() is awaited.  The background
\* receiver appends nothing from here on.
Disconnect ==
  /\ isOpen
  /\ isOpen' = FALSE
  /\ UNCHANGED <<isConnected, readBuffer, busVars, callVars, codecVars, groupVars>>

\* disconnect after reader, writer and port are closed: the buffer is replaced by
\* an empty one, what was on its way is lost, and the facade clears its flag.
DisconnectEnd ==
  /\ ~isOpen /\ isConnected
  /\ isConnected' = FALSE
  /\ readBuffer' = <<>>
  /\ inbound' = <<>>
  /\ UNCHANGED <<isOpen, silent, noise, writerErrored, callVars, codecVars, groupVars>>

\* The writable stream of the open port errors (the adapter is unplugged, the
\* driver fails): every writer.write from now on rejects.
WriterFails ==
  /\ isOpen /\ ~writerErrored
  /\ writerErrored' = TRUE
  /\ UNCHANGED <<portVars, inbound, silent, noise, callVars, codecVars, groupVars>>

\* A facade operation that does not call ensureConnected().
StartOp_NoEnsureConnected(p, kind, id, address, length, data) ==
  /\ op[p].pc \in {"idle", "done"}
  /\ started < MaxOps
  /\ started' = started + 1
  /\ op' = [op EXCEPT ![p] =
              [IdleOp EXCEPT !.kind = kind, !.id = id, !.address = address,
                             !.length = length, !.pc = "write",
                             !.packet = RequestPacket(kind, 0, id, address, length, data)]]
  /\ readBuffer' = <<>>
  /\ UNCHANGED <<isOpen, isConnected, busVars, codecVars, groupVars>>

\* A facade operation up to its first suspension: ensureConnected(), the request
\* packet, and the flush() that opens sendAndReceive.
StartOp(p, kind, id, address, length, data) ==
  /\ op[p].pc \in {"idle", "done"}
  /\ started < MaxOps
  /\ started' = started + 1
  /\ LET o == [IdleOp EXCEPT !.kind = kind, !.id = id, !.address = address,
                             !.length = length]
     IN IF ~(isConnected /\ isOpen)
        THEN /\ op' = [op EXCEPT ![p] = Done(o, ServoError("CONNECTION_LOST", -1), <<>>)]
             /\ UNCHANGED readBuffer
        ELSE /\ op' = [op EXCEPT ![p] =
                         [o EXCEPT !.pc = "write",
                                   !.packet = RequestPacket(kind, 0, id, address, length, data)]]
             /\ readBuffer' = <<>>
  /\ UNCHANGED <<isOpen, isConnected, busVars, codecVars, groupVars>>

OpIds == {1, BROADCAST_ID}
ScanStarts == {1, 2, 3}
ScanEnds == {2}
ReadAddresses == {56, 58}

ping(p) == \E id \in OpIds : StartOp(p, "ping", id, 0, 0, <<>>)

readData(p) == \E id \in OpIds, a \in ReadAddresses : StartOp(p, "read", id, a, 2, <<>>)

writeData(p) == \E id \in OpIds : StartOp(p, "write", id, 42, 0, <<0, 2>>)

reboot(p) == \E id \in OpIds : StartOp(p, "reboot", id, 0, 0, <<>>)

\* An Error that is not a ServoError and carries no code.
UntypedError == [ServoError("NONE", -1) EXCEPT !.code = "Error"]

\* utils/helpers.ts: the register values of the baud rates, value v at index v + 1
SCS_SERIES_BAUD_TABLE ==
  <<1000000, 500000, 250000, 128000, 115200, 57600, 38400, 19200>>

\* A lookup that counts the register values from 1.
getBaudRateValue_FromOne(baudRate) ==
  IF \E r \in 0..7 : SCS_SERIES_BAUD_TABLE[r + 1] = baudRate
  THEN (CHOOSE r \in 0..7 : SCS_SERIES_BAUD_TABLE[r + 1] = baudRate) + 1
  ELSE -1

\* getBaudRateValue(baudRate); -1 stands for the Error it throws
getBaudRateValue(baudRate) ==
  IF \E r \in 0..7 : SCS_SERIES_BAUD_TABLE[r + 1] = baudRate
  THEN CHOOSE r \in 0..7 : SCS_SERIES_BAUD_TABLE[r + 1] = baudRate
  ELSE -1

getActualBaudRate(registerValue) ==
  IF registerValue \in 0..7 THEN SCS_SERIES_BAUD_TABLE[registerValue + 1] ELSE 0

\* A call of the protocol handler throws `out` before it builds a packet.
Rejected(p, kind, id, arg, out) ==
  /\ op' = [op EXCEPT ![p] =
              Done([IdleOp EXCEPT !.kind = kind, !.id = id, !.arg = arg], out, <<>>)]
  /\ UNCHANGED readBuffer

\* writeByte(id, address, value) up to its first suspension: the WRITE packet
\* and the flush() that opens sendAndReceive.
writeByte(p, kind, id, address, value, arg) ==
  /\ op' = [op EXCEPT ![p] =
              [IdleOp EXCEPT !.kind = kind, !.id = id, !.address = address,
                             !.arg = arg, !.pc = "write",
                             !.packet = createWritePacket(id, address, <<value % 256>>)]]
  /\ readBuffer' = <<>>

NewIds == {-1, 5, 253, 254, 256}
BaudRates == {1000000, 500000, 250000, 128000, 115200, 57600, 38400, 19200, 9600, 0}
ID_ADDRESS == 5
BAUD_RATE_ADDRESS == 6

\* ProtocolHandler.setID(id, newId)
setID(p) ==
  /\ op[p].pc \in {"idle", "done"}
  /\ started < MaxOps
  /\ started' = started + 1
  /\ \E newId \in NewIds :
       IF newId < 0 \/ newId > 253
       THEN Rejected(p, "setID", 1, newId, ServoError("INVALID_PARAMETER", -1))
       ELSE writeByte(p, "setID", 1, ID_ADDRESS, newId, newId)
  /\ UNCHANGED <<isOpen, isConnected, busVars, codecVars, groupVars>>

\* FeetechServo.setID(id, newId): ensureConnected(), helpers.validateServoId(newId),
\* then the protocol handler's setID
facadeSetID(p) ==
  /\ op[p].pc \in {"idle", "done"}
  /\ started < MaxOps
  /\ started' = started + 1
  /\ \E newId \in NewIds :
       IF ~(isConnected /\ isOpen)
       THEN Rejected(p, "setID", 1, newId, ServoError("CONNECTION_LOST", -1))
       ELSE IF newId < 0 \/ newId > 253
       THEN Rejected(p, "setID", 1, newId, UntypedError)
       ELSE writeByte(p, "setID", 1, ID_ADDRESS, newId, newId)
  /\ UNCHANGED <<isOpen, isConnected, busVars, codecVars, groupVars>>

\* ProtocolHandler.setBaudRate(id, baudRate)
setBaudRate(p) ==
  /\ op[p].pc \in {"idle", "done"}
  /\ started < MaxOps
  /\ started' = started + 1
  /\ \E baudRate \in BaudRates :
       LET value == getBaudRateValue(baudRate)
       IN IF value = -1
          THEN Rejected(p, "setBaudRate", 1, baudRate, ServoError("INVALID_PARAMETER", -1))
          ELSE writeByte(p, "setBaudRate", 1, BAUD_RATE_ADDRESS, value, baudRate)
  /\ UNCHANGED <<isOpen, isConnected, busVars, codecVars, groupVars>>

\* utils/helpers.ts
getLowByte(word) == word % 256
getHighByte(word) == (word \div 256) % 256

GOAL_POSITION_ADDRESS == 42
GOAL_SPEED_ADDRESS == 46
\* speed === undefined
Undefined == -1

\* The packet of writeWord(id, address, value)
writeWordPacket(id, address, value) ==
  createWritePacket(id, address, <<getLowByte(value), getHighByte(value)>>)

\* A writePosition that writes the position before the speed.
writePositionPacket_PositionFirst(id, stage, position, speed) ==
  IF stage = 0 THEN writeWordPacket(id, GOAL_POSITION_ADDRESS, position)
  ELSE writeWordPacket(id, GOAL_SPEED_ADDRESS, speed)

\* ProtocolHandler.writePosition: the packet of its first write (the speed) and
\* of its second (the position)
writePositionPacket(id, stage, position, speed) ==
  IF stage = 0 THEN writeWordPacket(id, GOAL_SPEED_ADDRESS, speed)
  ELSE writeWordPacket(id, GOAL_POSITION_ADDRESS, position)

Positions == {2000, 5000}
Speeds == {Undefined, 300, 2000}

\* FeetechServo.writePosition(id, position, speed) up to its first suspension:
\* ensureConnected(), the clamping, and the flush() of the first write.
writePosition(p) ==
  /\ op[p].pc \in {"idle", "done"}
  /\ started < MaxOps
  /\ started' = started + 1
  /\ \E position \in Positions, speed \in Speeds :
       LET clampedPosition == clampPosition(position, "scs_series")
           clampedSpeed == IF speed # Undefined THEN clampSpeed(speed) ELSE Undefined
           stage == IF clampedSpeed # Undefined THEN 0 ELSE 1
           o == [IdleOp EXCEPT !.kind = "writePosition", !.id = 1,
                               !.arg = clampedPosition, !.speed = clampedSpeed]
       IN IF ~(isConnected /\ isOpen)
          THEN /\ op' = [op EXCEPT ![p] = Done(o, ServoError("CONNECTION_LOST", -1), <<>>)]
               /\ UNCHANGED readBuffer
          ELSE /\ op' = [op EXCEPT ![p] =
                           [o EXCEPT !.pc = "write", !.stage = stage,
                                     !.packet = writePositionPacket(1, stage,
                                                  clampedPosition, clampedSpeed)]]
               /\ readBuffer' = <<>>
  /\ UNCHANGED <<isOpen, isConnected, busVars, codecVars, groupVars>>

\* FeetechServo.scan(startId, endId) up to its first suspension:
\* ensureConnected(), then the first ping's ensureConnected(), packet and flush().
scan(p) ==
  /\ op[p].pc \in {"idle", "done"}
  /\ started < MaxOps
  /\ started' = started + 1
  /\ \E startId \in ScanStarts, endId \in ScanEnds :
       LET o == [IdleOp EXCEPT !.kind = "scan", !.id = startId,
                               !.startId = startId, !.endId = endId]
       IN IF ~(isConnected /\ isOpen)
          THEN /\ op' = [op EXCEPT ![p] = Done(o, ServoError("CONNECTION_LOST", -1), <<>>)]
               /\ UNCHANGED readBuffer
          ELSE IF startId > endId
          THEN /\ op' = [op EXCEPT ![p] = Done(o, Response(-1, -1, 0, <<>>, -1), <<>>)]
               /\ UNCHANGED readBuffer
          ELSE /\ op' = [op EXCEPT ![p] =
                           [o EXCEPT !.pc = "write",
                                     !.packet = RequestPacket("scan", 0, startId, 0, 0, <<>>)]]
               /\ readBuffer' = <<>>
  /\ UNCHANGED <<isOpen, isConnected, busVars, codecVars, groupVars>>

\* The operation's transaction ended with `out`.
EndTransaction(p, out, buf) ==
  LET f == Finish(op[p], out)
  IN /\ op' = [op EXCEPT ![p] = f.o]
     /\ readBuffer' = IF f.flush THEN <<>> ELSE buf

\* WebSerialPortHandler.write(packet), and the devices hear the packet
TxWrite(p) ==
  /\ op[p].pc = "write"
  /\ IF ~isOpen
     THEN /\ EndTransaction(p, ServoError("CONNECTION_LOST", -1), readBuffer)
          /\ UNCHANGED inbound
     ELSE IF writerErrored
     THEN /\ EndTransaction(p, ServoError("WRITE_ERROR", -1), readBuffer)
          /\ UNCHANGED inbound
     ELSE /\ \E e \in DeviceErrors : inbound' = inbound \o DeviceReply(op[p].packet, silent, e)
          /\ op' = [op EXCEPT ![p].pc = "hdrWait", ![p].elapsed = 0, ![p].age = 0,
                              ![p].sent = Append(@, op[p].packet)]
          /\ UNCHANGED readBuffer
  /\ UNCHANGED <<isOpen, isConnected, silent, noise, writerErrored, started, codecVars, groupVars>>

\* The receive loop of sendAndReceive resumes because its wait is satisfied.
Resume(p) ==
  LET o == op[p] IN
  /\ o.pc \in Waiting
  /\ Ready(o.pc, o.headerAndLen, readBuffer)
  /\ LET r == ReceiveLoop(o.pc, o.headerAndLen, readBuffer, isOpen)
     IN IF r.pc \in Waiting
        THEN /\ op' = [op EXCEPT ![p].pc = r.pc, ![p].headerAndLen = r.hdr,
                                 ![p].elapsed = 0]
             /\ readBuffer' = r.buf
        ELSE EndTransaction(p, IF r.pc = "failed" THEN r.err ELSE Validate(r.full, o.id),
                            r.buf)
  /\ UNCHANGED <<isOpen, isConnected, busVars, started, codecVars, groupVars>>

\* A timeout raised as soon as the elapsed time reaches the timeout.
Timeout_AtTimeout(p) ==
  LET o == op[p] IN
  /\ o.pc \in Waiting
  /\ ~Ready(o.pc, o.headerAndLen, readBuffer)
  /\ o.elapsed >= TimeoutMs
  /\ EndTransaction(p, ServoError("TIMEOUT", -1), readBuffer)
  /\ UNCHANGED <<isOpen, isConnected, busVars, started, codecVars, groupVars>>

\* A timeout that writes the request once more before it gives up.
Timeout_Retry(p) ==
  LET o == op[p] IN
  /\ o.pc \in Waiting
  /\ ~Ready(o.pc, o.headerAndLen, readBuffer)
  /\ o.elapsed > TimeoutMs
  /\ IF Len(o.sent) < o.stage + 2 /\ isOpen
     THEN /\ op' = [op EXCEPT ![p].pc = "hdrWait", ![p].elapsed = 0,
                              ![p].headerAndLen = <<>>,
                              ![p].sent = Append(@, o.packet)]
          /\ UNCHANGED readBuffer
     ELSE EndTransaction(p, ServoError("TIMEOUT", -1), readBuffer)
  /\ UNCHANGED <<isOpen, isConnected, busVars, started, codecVars, groupVars>>

\* waitForData / read: Date.now() - startTime > timeout while the wait is unsatisfied
Timeout(p) ==
  LET o == op[p] IN
  /\ o.pc \in Waiting
  /\ ~Ready(o.pc, o.headerAndLen, readBuffer)
  /\ o.elapsed > TimeoutMs
  /\ EndTransaction(p, ServoError("TIMEOUT", -1), readBuffer)
  /\ UNCHANGED <<isOpen, isConnected, busVars, started, codecVars, groupVars>>

\* The settle delay after a write or a reset has passed.  setBaudRate then
\* waits once more; writePosition goes on from the speed to the position, whose
\* sendAndReceive starts with flush().
Settle(p) ==
  /\ op[p].pc = "settle"
  /\ IF op[p].kind = "writePosition" /\ op[p].stage = 0
     THEN /\ op' = [op EXCEPT ![p].pc = "write", ![p].stage = 1,
                              ![p].packet = writePositionPacket(op[p].id, 1,
                                              op[p].arg, op[p].speed)]
          /\ readBuffer' = <<>>
     ELSE /\ op' = [op EXCEPT ![p] = IF op[p].kind = "setBaudRate"
                                     THEN [op[p] EXCEPT !.pc = "delay"]
                                     ELSE Done(op[p], op[p].out, <<>>)]
          /\ UNCHANGED readBuffer
  /\ UNCHANGED <<isOpen, isConnected, busVars, started, codecVars, groupVars>>

\* setBaudRate: its own delay after writeByte returned has passed.
Delay(p) ==
  /\ op[p].pc = "delay"
  /\ op' = [op EXCEPT ![p] = Done(op[p], op[p].out, <<>>)]
  /\ UNCHANGED <<portVars, busVars, started, codecVars, groupVars>>

\* One millisecond passes for every suspended wait.  The age of a transaction
\* is kept only where `aged` asks for it.
Elapse(aged) ==
  /\ \/ \E p \in Procs : op[p].pc \in Waiting /\ op[p].elapsed <= TimeoutMs
     \/ gr.pc \in Waiting /\ gr.elapsed <= TimeoutMs
  /\ op' = [p \in Procs |->
              IF op[p].pc \in Waiting
              THEN [op[p] EXCEPT !.elapsed = Min(@ + 1, TimeoutMs + 1),
                                 !.age = IF aged THEN Min(@ + 1, TimeoutMs + 2) ELSE @]
              ELSE op[p]]
  /\ gr' = IF gr.pc \in Waiting
           THEN [gr EXCEPT !.elapsed = Min(@ + 1, TimeoutMs + 1)]
           ELSE gr
  /\ UNCHANGED <<portVars, busVars, started, codecVars, gw>>

Tick == Elapse(FALSE)

\* One millisecond passes, and the transactions' ages are kept.
TickAged == Elapse(TRUE)

\* A receiver that puts the chunk it read in front of the buffered bytes.
Deliver_Prepends ==
  /\ isOpen
  /\ inbound # <<>>
  /\ readBuffer' = <<Head(inbound)>> \o readBuffer
  /\ inbound' = Tail(inbound)
  /\ UNCHANGED <<isOpen, isConnected, silent, noise, writerErrored, callVars, codecVars, groupVars>>

\* startReading: the background receiver appends what it read to the buffer.  A
\* chunk of several bytes is several of these steps with no other step between.
Deliver ==
  /\ isOpen
  /\ inbound # <<>>
  /\ readBuffer' = Append(readBuffer, Head(inbound))
  /\ inbound' = Tail(inbound)
  /\ UNCHANGED <<isOpen, isConnected, silent, noise, writerErrored, callVars, codecVars, groupVars>>

Caller(p) ==
  \/ ping(p)
  \/ readData(p)
  \/ writeData(p)
  \/ reboot(p)
  \/ TxWrite(p)
  \/ Resume(p)
  \/ Timeout(p)
  \/ Settle(p)

Init ==
  /\ InitEngine
  /\ silent \in SUBSET Devices
  /\ cStage = "input" /\ cSrc = "none" /\ cId = 1 /\ cByte4 = 0 /\ cParams = <<>>
  /\ cPacket = <<>> /\ cFlip = -1 /\ cOut = NoOutcome
  /\ helper = NoHelperCall

\* One caller that awaits each operation before it starts the next.
Next == Connect \/ Disconnect \/ DisconnectEnd \/ Caller(1) \/ Tick \/ Deliver

InitSingle ==
  /\ Init
  /\ silent \in {{}, {1}}

Spec == InitSingle /\ [][Next]_vars

\* One caller, with the time since each request was written kept.
NextTime == Connect \/ Disconnect \/ DisconnectEnd \/ Caller(1) \/ TickAged \/ Deliver

SpecTime == InitSingle /\ [][NextTime]_vars

\* One caller, on a port whose writable stream may error.
NextFault == Next \/ WriterFails

SpecFault == InitSingle /\ [][NextFault]_vars

\* Two callers that start operations without awaiting each other, on a port that
\* stays open.
NextConc == Connect \/ Caller(1) \/ Caller(2) \/ Tick \/ Deliver

SpecConc == InitSingle /\ [][NextConc]_vars

\* One caller that changes a device's id and baud rate.
NextConfig ==
  \/ Connect
  \/ Disconnect
  \/ DisconnectEnd
  \/ setID(1)
  \/ facadeSetID(1)
  \/ setBaudRate(1)
  \/ TxWrite(1)
  \/ Resume(1)
  \/ Timeout(1)
  \/ Settle(1)
  \/ Delay(1)
  \/ Tick
  \/ Deliver

SpecConfig == InitSingle /\ [][NextConfig]_vars

\* writePosition on a port that may close and devices that may not answer.
NextPosition ==
  \/ Connect
  \/ Disconnect
  \/ DisconnectEnd
  \/ writePosition(1)
  \/ TxWrite(1)
  \/ Resume(1)
  \/ Timeout(1)
  \/ Settle(1)
  \/ Tick
  \/ Deliver

SpecPosition == InitSingle /\ [][NextPosition]_vars

----------------------------------------------------------------------------
(* Bus noise ahead of a reply *)

MaxNoise == 3
NoiseBytes == {0, 253, 255}

\* A garbage byte reaches the host after the flush and ahead of the reply.
Noise ==
  /\ isOpen
  /\ op[1].pc = "write"
  /\ Len(noise) < MaxNoise
  /\ \E b \in NoiseBytes :
       /\ noise' = Append(noise, b)
       /\ inbound' = Append(inbound, b)
  /\ UNCHANGED <<portVars, silent, writerErrored, callVars, codecVars, groupVars>>

InitSync ==
  /\ Init
  /\ silent = {}

\* One read of a device that answers, on a bus that carries garbage first.
NextSync ==
  \/ Connect
  \/ Noise
  \/ (started = 0 /\ readData(1))
  \/ TxWrite(1)
  \/ Resume(1)
  \/ Timeout(1)
  \/ Tick
  \/ Deliver

SpecSync == InitSync /\ [][NextSync]_vars

----------------------------------------------------------------------------
(* A status frame of some device ahead of the reply *)

ForeignIds == {1, 2}
ForeignErrors == {0, 32}
ForeignParams == {<<>>, <<72, 73>>, <<72, 73, 74>>}

\* Status frames as a device builds them, and the same with a wrong checksum.
ForeignFrames ==
  LET good == {createPacket(id, e, ps) :
                 id \in ForeignIds, e \in ForeignErrors, ps \in ForeignParams}
  IN good \cup {[f EXCEPT ![Len(f)] = U8(@ + 1)] : f \in good}

\* Such a frame reaches the host after the flush and ahead of the reply.
ForeignFrame ==
  /\ isOpen
  /\ op[1].pc = "write"
  /\ noise = <<>>
  /\ \E f \in ForeignFrames :
       /\ noise' = f
       /\ inbound' = inbound \o f
  /\ UNCHANGED <<portVars, silent, writerErrored, callVars, codecVars, groupVars>>

InitForeign ==
  /\ Init
  /\ silent \in {{}, {1}}

\* One read on a bus that carries another status frame first.
NextForeign ==
  \/ Connect
  \/ ForeignFrame
  \/ (started = 0 /\ readData(1))
  \/ TxWrite(1)
  \/ Resume(1)
  \/ Timeout(1)
  \/ Tick
  \/ Deliver

SpecForeign == InitForeign /\ [][NextForeign]_vars

----------------------------------------------------------------------------
(* Bus chatter that never stops, and no device that answers *)

MaxPending == 2
ChatterBytes == {0}

\* A byte that belongs to no header is on its way to the host.
Stray ==
  /\ isOpen
  /\ Len(inbound) + Len(readBuffer) < MaxPending
  /\ \E b \in ChatterBytes : inbound' = Append(inbound, b)
  /\ UNCHANGED <<portVars, silent, noise, writerErrored, callVars, codecVars, groupVars>>

\* Such a byte reaches the host while a transaction waits.
Chatter ==
  /\ op[1].pc \in Waiting
  /\ Stray

InitChatter ==
  /\ Init
  /\ silent = {1}

NextChatter ==
  \/ Connect
  \/ readData(1)
  \/ TxWrite(1)
  \/ Resume(1)
  \/ Timeout(1)
  \/ Tick
  \/ Deliver
  \/ Chatter

\* The event loop runs every continuation and timer that is due, the receiver
\* hands over what the port has read, and time passes.
FairChatter ==
  /\ WF_vars(TxWrite(1))
  /\ WF_vars(Resume(1))
  /\ WF_vars(Timeout(1))
  /\ WF_vars(Tick)
  /\ WF_vars(Deliver)

SpecChatter == InitChatter /\ [][NextChatter]_vars /\ FairChatter

----------------------------------------------------------------------------
(* sync/group-sync-read.ts: GroupSyncRead *)

MaxRuns == 2
GroupIds == {1, 2, 3}
GroupAddress == 56
GroupDataLength == 2

\* The error byte the devices put in their status frames during one execution
\* (0x20 is ErrorBit.OVERLOAD).
GroupErrors == {0, 32, 128}

Has(list, x) == \E i \in 1..Len(list) : list[i] = x

RECURSIVE Without(_, _)
Without(list, x) ==
  IF list = <<>> THEN <<>>
  ELSE IF list[1] = x THEN Without(Tail(list), x)
  ELSE <<list[1]>> \o Without(Tail(list), x)

\* Map.delete / Map.set on the result map
MapDelete(m, k) == [i \in DOMAIN m \ {k} |-> m[i]]
MapSet(m, k, v) == [i \in DOMAIN m \cup {k} |-> IF i = k THEN v ELSE m[i]]

GrAddParam ==
  /\ gr.pc \in {"idle", "done"}
  /\ \E id \in GroupIds :
       gr' = [gr EXCEPT !.idList = IF Has(@, id) THEN @ ELSE Append(@, id),
                        !.pc = "idle", !.tried = <<>>, !.outs = <<>>,
                        !.ids = <<>>, !.sent = <<>>, !.out = NoOutcome,
                        !.late = FALSE, !.flushes = 0]
  /\ UNCHANGED <<portVars, busVars, callVars, codecVars, gw>>

GrRemoveParam ==
  /\ gr.pc \in {"idle", "done"}
  /\ \E id \in GroupIds :
       gr' = [gr EXCEPT !.idList = Without(@, id), !.dataMap = MapDelete(@, id),
                        !.pc = "idle", !.tried = <<>>, !.outs = <<>>,
                        !.ids = <<>>, !.sent = <<>>, !.out = NoOutcome,
                        !.late = FALSE, !.flushes = 0]
  /\ UNCHANGED <<portVars, busVars, callVars, codecVars, gw>>

GrClearParam ==
  /\ gr.pc \in {"idle", "done"}
  /\ gr' = [gr EXCEPT !.idList = <<>>, !.dataMap = <<>>, !.pc = "idle",
                      !.tried = <<>>, !.outs = <<>>, !.ids = <<>>,
                      !.sent = <<>>, !.out = NoOutcome, !.late = FALSE,
                      !.flushes = 0]
  /\ UNCHANGED <<portVars, busVars, callVars, codecVars, gw>>

\* A txRxPacket without the empty check.
GrTxRxPacket_NoEmptyCheck ==
  /\ gr.pc \in {"idle", "done"}
  /\ gr.runs < MaxRuns
  /\ gr' = [gr EXCEPT !.pc = "write", !.runs = @ + 1, !.sent = <<>>,
                      !.out = NoOutcome, !.dataMap = <<>>, !.late = FALSE,
                      !.ids = gr.idList, !.idx = 0, !.tried = <<>>, !.outs = <<>>,
                      !.flushes = 1,
                      !.packet = createSyncReadPacket(GroupAddress,
                                   GroupDataLength, gr.idList)]
  /\ readBuffer' = <<>>
  /\ UNCHANGED <<isOpen, isConnected, busVars, callVars, codecVars, gw>>

\* A txRxPacket that keeps the results of the execution before it.
GrTxRxPacket_KeepsResults ==
  /\ gr.pc \in {"idle", "done"}
  /\ gr.runs < MaxRuns
  /\ IF gr.idList = <<>>
     THEN /\ gr' = [gr EXCEPT !.pc = "done", !.runs = @ + 1, !.sent = <<>>,
                              !.ids = <<>>, !.tried = <<>>, !.outs = <<>>,
                              !.flushes = 0,
                              !.out = ServoError("INVALID_PARAMETER", -1)]
          /\ UNCHANGED readBuffer
     ELSE /\ gr' = [gr EXCEPT !.pc = "write", !.runs = @ + 1, !.sent = <<>>,
                              !.out = NoOutcome, !.late = FALSE,
                              !.ids = gr.idList, !.idx = 0,
                              !.tried = <<>>, !.outs = <<>>, !.flushes = 1,
                              !.packet = createSyncReadPacket(GroupAddress,
                                           GroupDataLength, gr.idList)]
          /\ readBuffer' = <<>>
  /\ UNCHANGED <<isOpen, isConnected, busVars, callVars, codecVars, gw>>

\* txRxPacket up to its first suspension: the empty check, dataMap.clear(), the
\* solicitation packet and flush().
GrTxRxPacket ==
  /\ gr.pc \in {"idle", "done"}
  /\ gr.runs < MaxRuns
  /\ IF gr.idList = <<>>
     THEN /\ gr' = [gr EXCEPT !.pc = "done", !.runs = @ + 1, !.sent = <<>>,
                              !.ids = <<>>, !.tried = <<>>, !.outs = <<>>,
                              !.flushes = 0,
                              !.out = ServoError("INVALID_PARAMETER", -1)]
          /\ UNCHANGED readBuffer
     ELSE /\ gr' = [gr EXCEPT !.pc = "write", !.runs = @ + 1, !.sent = <<>>,
                              !.out = NoOutcome, !.dataMap = <<>>, !.late = FALSE,
                              !.ids = gr.idList, !.idx = 0,
                              !.tried = <<>>, !.outs = <<>>, !.flushes = 1,
                              !.packet = createSyncReadPacket(GroupAddress,
                                           GroupDataLength, gr.idList)]
          /\ readBuffer' = <<>>
  /\ UNCHANGED <<isOpen, isConnected, busVars, callVars, codecVars, gw>>

\* txRxPacket: portHandler.write(packet), and the devices hear the solicitation
GrWrite ==
  /\ gr.pc = "write"
  /\ IF ~isOpen
     THEN /\ gr' = [gr EXCEPT !.pc = "done", !.packet = <<>>,
                              !.out = ServoError("CONNECTION_LOST", -1)]
          /\ UNCHANGED inbound
     ELSE IF writerErrored
     THEN /\ gr' = [gr EXCEPT !.pc = "done", !.packet = <<>>,
                              !.out = ServoError("WRITE_ERROR", -1)]
          /\ UNCHANGED inbound
     ELSE /\ \E e \in GroupErrors : inbound' = inbound \o DeviceReply(gr.packet, silent, e)
          /\ gr' = [gr EXCEPT !.pc = "hdrWait", !.elapsed = 0, !.idx = 1,
                              !.tried = <<gr.ids[1]>>,
                              !.sent = Append(@, gr.packet), !.packet = <<>>]
  /\ UNCHANGED <<portVars, silent, noise, writerErrored, callVars, codecVars, gw>>

\* The loop of txRxPacket after readResponse(ids[idx]) returned or threw `out`.
GrAfterResponse(g, out) ==
  LET id == g.ids[g.idx]
      stored == IF out.ok /\ Len(out.parameters) >= GroupDataLength
                THEN MapSet(g.dataMap, id, Slice(out.parameters, 0, GroupDataLength))
                ELSE g.dataMap
  IN IF g.idx = Len(g.ids)
     THEN [g EXCEPT !.dataMap = stored, !.pc = "done", !.elapsed = 0,
                    !.outs = Append(@, out),
                    !.headerAndLen = <<>>, !.out = Response(-1, -1, 0, <<>>, -1)]
     ELSE [g EXCEPT !.dataMap = stored, !.pc = "hdrWait", !.elapsed = 0,
                    !.outs = Append(@, out), !.tried = Append(@, g.ids[g.idx + 1]),
                    !.headerAndLen = <<>>, !.idx = @ + 1]

\* A loop that flushes the buffer again before it waits for the next id.
GrResume_FlushesBetween ==
  /\ gr.pc \in Waiting
  /\ Ready(gr.pc, gr.headerAndLen, readBuffer)
  /\ LET r == ReceiveLoop(gr.pc, gr.headerAndLen, readBuffer, isOpen)
     IN /\ readBuffer' = IF r.pc \in Waiting THEN r.buf ELSE <<>>
        /\ gr' = IF r.pc \in Waiting
                 THEN [gr EXCEPT !.pc = r.pc, !.headerAndLen = r.hdr, !.elapsed = 0]
                 ELSE [GrAfterResponse(gr, IF r.pc = "failed" THEN r.err
                                           ELSE Validate(r.full, gr.ids[gr.idx]))
                         EXCEPT !.flushes = @ + 1]
  /\ UNCHANGED <<isOpen, isConnected, busVars, callVars, codecVars, gw>>

\* readResponse resumes because its wait is satisfied.
GrResume ==
  /\ gr.pc \in Waiting
  /\ Ready(gr.pc, gr.headerAndLen, readBuffer)
  /\ LET r == ReceiveLoop(gr.pc, gr.headerAndLen, readBuffer, isOpen)
     IN /\ readBuffer' = r.buf
        /\ gr' = IF r.pc \in Waiting
                 THEN [gr EXCEPT !.pc = r.pc, !.headerAndLen = r.hdr, !.elapsed = 0]
                 ELSE GrAfterResponse(gr, IF r.pc = "failed" THEN r.err
                                          ELSE Validate(r.full, gr.ids[gr.idx]))
  /\ UNCHANGED <<isOpen, isConnected, busVars, callVars, codecVars, gw>>

\* readResponse: waitForData / read time out
GrTimeout ==
  /\ gr.pc \in Waiting
  /\ ~Ready(gr.pc, gr.headerAndLen, readBuffer)
  /\ gr.elapsed > TimeoutMs
  /\ gr' = GrAfterResponse([gr EXCEPT !.late = @ \/ inbound # <<>> \/ readBuffer # <<>>],
                           ServoError("TIMEOUT", -1))
  /\ UNCHANGED <<portVars, busVars, callVars, codecVars, gw>>

\* startReading: the background receiver appends a chunk that holds the next
\* status frame whole.
DeliverFrame ==
  /\ isOpen
  /\ inbound # <<>>
  /\ LET n == Min(Len(inbound), MIN_PACKET_LENGTH + GroupDataLength)
     IN /\ readBuffer' = readBuffer \o SubSeq(inbound, 1, n)
        /\ inbound' = SubSeq(inbound, n + 1, Len(inbound))
  /\ UNCHANGED <<isOpen, isConnected, silent, noise, writerErrored, callVars, codecVars, groupVars>>

\* getData(id)
getData(id) == IF id \in DOMAIN gr.dataMap THEN gr.dataMap[id] ELSE <<>>

InitGroup ==
  /\ Init
  /\ silent \in {{}, {2}}

NextGroup ==
  \/ Connect
  \/ GrAddParam
  \/ GrRemoveParam
  \/ GrClearParam
  \/ GrTxRxPacket
  \/ GrWrite
  \/ GrResume
  \/ GrTimeout
  \/ Tick
  \/ DeliverFrame

SpecGroup == InitGroup /\ [][NextGroup]_vars

----------------------------------------------------------------------------
(* GroupSyncRead: membership calls while txRxPacket is suspended *)

\* The ids the application adds and removes meanwhile.
MemberIds == {2, 3}

\* txRxPacket is suspended in write() or in a wait of readResponse.
GrSuspended == gr.pc = "write" \/ gr.pc \in Waiting

\* addParam(id) called by the application while txRxPacket is suspended; the
\* execution keeps the ids it copied from the set when it started.
GrAddParamDuring ==
  /\ GrSuspended
  /\ \E id \in MemberIds :
       gr' = [gr EXCEPT !.idList = IF Has(@, id) THEN @ ELSE Append(@, id)]
  /\ UNCHANGED <<portVars, busVars, callVars, codecVars, gw>>

\* removeParam(id) called while txRxPacket is suspended
GrRemoveParamDuring ==
  /\ GrSuspended
  /\ \E id \in MemberIds :
       gr' = [gr EXCEPT !.idList = Without(@, id), !.dataMap = MapDelete(@, id)]
  /\ UNCHANGED <<portVars, busVars, callVars, codecVars, gw>>

\* clearParam() called while txRxPacket is suspended
GrClearParamDuring ==
  /\ GrSuspended
  /\ gr' = [gr EXCEPT !.idList = <<>>, !.dataMap = <<>>]
  /\ UNCHANGED <<portVars, busVars, callVars, codecVars, gw>>

\* The group was created and ids 1 and 2 were added.
InitMember ==
  /\ isOpen = FALSE /\ isConnected = FALSE
  /\ readBuffer = <<>> /\ inbound = <<>> /\ noise = <<>>
  /\ writerErrored = FALSE
  /\ silent \in {{}, {2}}
  /\ op = [p \in Procs |-> IdleOp]
  /\ started = 0
  /\ gr = [NewGroupSyncRead EXCEPT !.idList = <<1, 2>>]
  /\ gw = NewGroupSyncWrite
  /\ cStage = "input" /\ cSrc = "none" /\ cId = 1 /\ cByte4 = 0 /\ cParams = <<>>
  /\ cPacket = <<>> /\ cFlip = -1 /\ cOut = NoOutcome
  /\ helper = NoHelperCall

NextMember ==
  \/ Connect
  \/ GrTxRxPacket
  \/ GrWrite
  \/ GrResume
  \/ GrTimeout
  \/ GrAddParamDuring
  \/ GrRemoveParamDuring
  \/ GrClearParamDuring
  \/ Tick
  \/ DeliverFrame

SpecMember == InitMember /\ [][NextMember]_vars

----------------------------------------------------------------------------
(* FeetechServo.scan over a range of ids *)

\* One caller that scans a range of ids, on a port that stays open.
NextScan ==
  \/ Connect
  \/ scan(1)
  \/ TxWrite(1)
  \/ Resume(1)
  \/ Timeout(1)
  \/ Tick
  \/ DeliverFrame

InitScan ==
  /\ Init
  /\ silent \in {{}, {1}, {2}}

SpecScan == InitScan /\ [][NextScan]_vars

----------------------------------------------------------------------------
(* sync/group-sync-write.ts: GroupSyncWrite *)

GwIds == {1, 2, 3, BROADCAST_ID}
GwAddress == 42
GwDataLength == 2
\* Values of the configured width, and one that is too short.
GwData == {<<0, 2>>, <<1, 0>>, <<7>>}
\* A method returned without a value.
Void == Response(-1, -1, 0, <<>>, -1)

HasEntry(entries, id) == \E i \in 1..Len(entries) : entries[i].id = id

\* Map.get on the data map
EntryOf(entries, id) ==
  IF HasEntry(entries, id)
  THEN entries[CHOOSE i \in 1..Len(entries) : entries[i].id = id].values
  ELSE <<>>

\* A map that stores a second entry for a key it already holds.
MapPut_Appends(entries, id, data) == Append(entries, [id |-> id, values |-> data])

\* Map.set on the data map: a known key keeps its place in the iteration order.
MapPut(entries, id, data) ==
  IF HasEntry(entries, id)
  THEN [i \in 1..Len(entries) |->
          IF entries[i].id = id THEN [id |-> id, values |-> data] ELSE entries[i]]
  ELSE Append(entries, [id |-> id, values |-> data])

RECURSIVE MapRemove(_, _)
MapRemove(entries, id) ==
  IF entries = <<>> THEN <<>>
  ELSE IF entries[1].id = id THEN MapRemove(Tail(entries), id)
  ELSE <<entries[1]>> \o MapRemove(Tail(entries), id)

\* An addParam that stores the data whatever its length.
GwAddParam_NoLengthCheck ==
  /\ gw.pc \in {"idle", "done"}
  /\ \E id \in GwIds, data \in GwData :
       gw' = [gw EXCEPT !.entries = MapPut(@, id, data), !.pc = "idle",
                        !.sent = <<>>, !.flushes = 0, !.out = NoOutcome, !.prev = <<>>,
                        !.last = [call |-> "addParam", id |-> id, data |-> data,
                                  out |-> Void]]
  /\ UNCHANGED <<portVars, busVars, callVars, codecVars, gr>>

GwAddParam ==
  /\ gw.pc \in {"idle", "done"}
  /\ \E id \in GwIds, data \in GwData :
       IF Len(data) # GwDataLength
       THEN gw' = [gw EXCEPT !.pc = "idle",
                             !.sent = <<>>, !.flushes = 0, !.out = NoOutcome, !.prev = <<>>,
                             !.last = [call |-> "addParam", id |-> id, data |-> data,
                                       out |-> ServoError("INVALID_PARAMETER", id)]]
       ELSE gw' = [gw EXCEPT !.entries = MapPut(@, id, data), !.pc = "idle",
                             !.sent = <<>>, !.flushes = 0, !.out = NoOutcome, !.prev = <<>>,
                             !.last = [call |-> "addParam", id |-> id, data |-> data,
                                       out |-> Void]]
  /\ UNCHANGED <<portVars, busVars, callVars, codecVars, gr>>

GwRemoveParam ==
  /\ gw.pc \in {"idle", "done"}
  /\ \E id \in GwIds :
       gw' = [gw EXCEPT !.entries = MapRemove(@, id), !.pc = "idle",
                        !.sent = <<>>, !.flushes = 0, !.out = NoOutcome, !.prev = <<>>,
                        !.last = [call |-> "removeParam", id |-> id, data |-> <<>>,
                                  out |-> Void]]
  /\ UNCHANGED <<portVars, busVars, callVars, codecVars, gr>>

GwClearParam ==
  /\ gw.pc \in {"idle", "done"}
  /\ gw' = [gw EXCEPT !.entries = <<>>, !.pc = "idle",
                      !.sent = <<>>, !.flushes = 0, !.out = NoOutcome, !.prev = <<>>,
                      !.last = [call |-> "clearParam", id |-> -1, data |-> <<>>,
                                out |-> Void]]
  /\ UNCHANGED <<portVars, busVars, callVars, codecVars, gr>>

\* A txPacket that flushes the input before it looks at the entries.
GwTxPacket_FlushFirst ==
  /\ gw.pc \in {"idle", "done"}
  /\ gw.runs < MaxRuns
  /\ readBuffer' = <<>>
  /\ LET called == [call |-> "txPacket", id |-> -1, data |-> <<>>, out |-> NoOutcome]
     IN IF gw.entries = <<>>
        THEN gw' = [gw EXCEPT !.pc = "done", !.runs = @ + 1, !.sent = <<>>,
                              !.flushes = 1, !.last = called,
                                 !.prev = IF gw.sent # <<>> THEN gw.sent[1] ELSE @,
                              !.out = ServoError("INVALID_PARAMETER", -1)]
        ELSE gw' = [gw EXCEPT !.pc = "write", !.runs = @ + 1, !.sent = <<>>,
                              !.flushes = 1, !.last = called,
                                 !.prev = IF gw.sent # <<>> THEN gw.sent[1] ELSE @, !.out = NoOutcome,
                              !.packet = createSyncWritePacket(GwAddress, GwDataLength,
                                                               gw.entries)]
  /\ UNCHANGED <<isOpen, isConnected, busVars, callVars, codecVars, gr>>

\* txPacket up to its first suspension: the empty check, the packet and flush().
GwTxPacket ==
  /\ gw.pc \in {"idle", "done"}
  /\ gw.runs < MaxRuns
  /\ LET called == [call |-> "txPacket", id |-> -1, data |-> <<>>, out |-> NoOutcome]
     IN IF gw.entries = <<>>
        THEN /\ gw' = [gw EXCEPT !.pc = "done", !.runs = @ + 1, !.sent = <<>>,
                                 !.flushes = 0, !.last = called,
                                 !.prev = IF gw.sent # <<>> THEN gw.sent[1] ELSE @,
                                 !.out = ServoError("INVALID_PARAMETER", -1)]
             /\ UNCHANGED readBuffer
        ELSE /\ gw' = [gw EXCEPT !.pc = "write", !.runs = @ + 1, !.sent = <<>>,
                                 !.flushes = 1, !.last = called,
                                 !.prev = IF gw.sent # <<>> THEN gw.sent[1] ELSE @, !.out = NoOutcome,
                                 !.packet = createSyncWritePacket(GwAddress, GwDataLength,
                                                                  gw.entries)]
             /\ readBuffer' = <<>>
  /\ UNCHANGED <<isOpen, isConnected, busVars, callVars, codecVars, gr>>

\* txPacket: portHandler.write(packet); no device answers a broadcast write
GwWrite ==
  /\ gw.pc = "write"
  /\ IF ~isOpen
     THEN /\ gw' = [gw EXCEPT !.pc = "done", !.packet = <<>>,
                              !.out = ServoError("CONNECTION_LOST", -1)]
          /\ UNCHANGED inbound
     ELSE IF writerErrored
     THEN /\ gw' = [gw EXCEPT !.pc = "done", !.packet = <<>>,
                              !.out = ServoError("WRITE_ERROR", -1)]
          /\ UNCHANGED inbound
     ELSE /\ \E e \in DeviceErrors : inbound' = inbound \o DeviceReply(gw.packet, silent, e)
          /\ gw' = [gw EXCEPT !.pc = "settle", !.sent = Append(@, gw.packet),
                              !.packet = <<>>]
  /\ UNCHANGED <<portVars, silent, noise, writerErrored, callVars, codecVars, gr>>

\* A txPacket that clears the entries once they are sent.
GwSettle_ClearsEntries ==
  /\ gw.pc = "settle"
  /\ gw' = [gw EXCEPT !.pc = "done", !.out = Void, !.entries = <<>>]
  /\ UNCHANGED <<portVars, busVars, callVars, codecVars, gr>>

\* txPacket: the LATENCY_TIMER delay has passed and txPacket returns
GwSettle ==
  /\ gw.pc = "settle"
  /\ gw' = [gw EXCEPT !.pc = "done", !.out = Void]
  /\ UNCHANGED <<portVars, busVars, callVars, codecVars, gr>>

InitWrite ==
  /\ Init
  /\ silent = {}

NextWrite ==
  \/ Connect
  \/ GwAddParam
  \/ GwRemoveParam
  \/ GwClearParam
  \/ GwTxPacket
  \/ GwWrite
  \/ GwSettle
  \/ Stray
  \/ Deliver

SpecWrite == InitWrite /\ [][NextWrite]_vars

----------------------------------------------------------------------------
(* Operations and group executions on a port that opens and closes *)

\* The facade is constructed; a group read and a group write were created on
\* an earlier connection and are empty or hold device 1.
InitClosed ==
  /\ isOpen = FALSE /\ isConnected = FALSE
  /\ readBuffer = <<>> /\ inbound = <<>> /\ noise = <<>>
  /\ writerErrored = FALSE
  /\ silent \in {{}, {1}}
  /\ op = [p \in Procs |-> IdleOp]
  /\ started = 0
  /\ gr \in {NewGroupSyncRead, [NewGroupSyncRead EXCEPT !.idList = <<1>>]}
  /\ gw \in {NewGroupSyncWrite,
              [NewGroupSyncWrite EXCEPT !.entries = MapPut(<<>>, 1, <<0, 2>>)]}
  /\ cStage = "input" /\ cSrc = "none" /\ cId = 1 /\ cByte4 = 0 /\ cParams = <<>>
  /\ cPacket = <<>> /\ cFlip = -1 /\ cOut = NoOutcome
  /\ helper = NoHelperCall

\* The caller awaits each call before it makes the next, MaxOps calls in all.
CallerIdle ==
  /\ op[1].pc \in {"idle", "done"}
  /\ gr.pc \in {"idle", "done"}
  /\ gw.pc \in {"idle", "done"}
  /\ started + gr.runs + gw.runs < MaxOps

ClosedCall ==
  /\ CallerIdle
  /\ \/ ping(1)
     \/ readData(1)
     \/ writeData(1)
     \/ GrTxRxPacket
     \/ GwTxPacket

\* One caller of the facade and of the two groups, while the port is connected
\* and disconnected.
NextClosed ==
  \/ Connect
  \/ Disconnect
  \/ DisconnectEnd
  \/ ClosedCall
  \/ TxWrite(1)
  \/ Resume(1)
  \/ Timeout(1)
  \/ Settle(1)
  \/ GrWrite
  \/ GrResume
  \/ GrTimeout
  \/ GwWrite
  \/ GwSettle
  \/ Tick
  \/ DeliverFrame

SpecClosed == InitClosed /\ [][NextClosed]_vars

----------------------------------------------------------------------------
(* Codec harness: the pure functions applied to bounded inputs *)

MaxParams == 2
CodecIds == {1, 5}
CodecByte4 == {0, 1, 128, 253}
ParamBytes == {0, 1, 252, 255}
FlipBytes == {0, 1, 2, 3, 252, 253, 255}
\* Parameter counts around the largest count the one-byte length field holds.
LongParamLens == {253, 254}

RECURSIVE SeqsUpTo(_, _)
SeqsUpTo(S, n) ==
  IF n = 0 THEN {<<>>}
  ELSE LET shorter == SeqsUpTo(S, n - 1)
       IN shorter \cup {Append(s, b) : s \in {t \in shorter : Len(t) = n - 1}, b \in S}

CodecParams ==
  SeqsUpTo(ParamBytes, MaxParams) \cup {[i \in 1..n |-> 0] : n \in LongParamLens}

RawInputs ==
  { <<255, 255, 5, 2, 0, 249>>,
    <<255, 255, 5, 2, 0, 248>>,
    <<255, 255, 5, 2, 0>>,
    <<0, 255, 5, 2, 0, 248>>,
    <<255, 255, 5, 3, 0, 247>>,
    <<255, 255, 5, 2, 0, 248, 0>>,
    <<255, 255, 1, 1, 253, 255>> }

InitCodec ==
  /\ cStage = "input"
  /\ cSrc = "none"
  /\ cId \in CodecIds
  /\ cByte4 \in CodecByte4
  /\ cParams \in CodecParams
  /\ cPacket = <<>>
  /\ cFlip = -1
  /\ helper = NoHelperCall
  /\ cOut = NoOutcome
  /\ InitEngine
  /\ silent = {}

\* encode: packet := createPacket(id, instruction, parameters)
CodecEncode ==
  /\ cStage = "input"
  /\ cPacket' = createPacket(cId, cByte4, cParams)
  /\ cStage' = "encoded"
  /\ UNCHANGED <<cSrc, cId, cByte4, cParams, cFlip, cOut, helper, engineVars>>

\* one byte of the checksum-covered span of the frame is changed in transit
CodecFlip ==
  /\ cStage = "encoded"
  /\ \E i \in 2..(Len(cPacket) - 2), v \in FlipBytes :
       /\ v # At(cPacket, i)
       /\ cPacket' = [cPacket EXCEPT ![i + 1] = v]
       /\ cFlip' = i
  /\ cStage' = "flipped"
  /\ UNCHANGED <<cSrc, cId, cByte4, cParams, cOut, helper, engineVars>>

\* bytes that no encoder built are handed to the decoder
CodecRaw ==
  /\ cStage = "input"
  /\ cPacket' \in RawInputs
  /\ cStage' = "raw"
  /\ UNCHANGED <<cSrc, cId, cByte4, cParams, cFlip, cOut, helper, engineVars>>

\* decode: out := parsePacket(packet)
CodecDecode ==
  /\ cStage \in {"encoded", "flipped", "raw"}
  /\ cOut' = parsePacket(cPacket)
  /\ cStage' = "decoded"
  /\ cSrc' = cStage
  /\ UNCHANGED <<cId, cByte4, cParams, cPacket, cFlip, helper, engineVars>>

\* check: checkError(out) on a response that parsePacket returned
CodecCheck ==
  /\ cStage = "decoded"
  /\ cOut.ok
  /\ cOut' = checkError(cOut)
  /\ cStage' = "checked"
  /\ UNCHANGED <<cSrc, cId, cByte4, cParams, cPacket, cFlip, helper, engineVars>>

NextCodec == CodecEncode \/ CodecFlip \/ CodecRaw \/ CodecDecode \/ CodecCheck

SpecCodec == InitCodec /\ [][NextCodec]_vars

----------------------------------------------------------------------------
(* Helper harness: clampPosition and clampSpeed applied to bounded inputs *)

\* Positions and speeds around the ends of the ranges, and the documented calls.
ClampInputs ==
  {-100, 2000} \cup (-3..3) \cup (1018..1028) \cup (4090..4100)
HelperModels == MotorModels \cup {"unknown"}

\* helpers.clampPosition(position, model); the default model is 'scs_series'
HelperClampPosition ==
  /\ \E position \in ClampInputs, model \in HelperModels :
       helper' = [fn |-> "clampPosition", model |-> model, arg |-> position,
                  out |-> clampPosition(position, model)]
  /\ UNCHANGED <<cStage, cSrc, cId, cByte4, cParams, cPacket, cFlip, cOut, engineVars>>

\* helpers.clampSpeed(speed)
HelperClampSpeed ==
  /\ \E speed \in ClampInputs :
       helper' = [fn |-> "clampSpeed", model |-> "scs_series", arg |-> speed,
                  out |-> clampSpeed(speed)]
  /\ UNCHANGED <<cStage, cSrc, cId, cByte4, cParams, cPacket, cFlip, cOut, engineVars>>

NextHelper == HelperClampPosition \/ HelperClampSpeed

InitHelper ==
  /\ Init
  /\ silent = {}

SpecHelper == InitHelper /\ [][NextHelper]_vars

----------------------------------------------------------------------------
(* Properties of the helpers, checked under SpecHelper *)

\* C31: with the default model clampPosition never returns more than 1023, so
\* clampPosition(2000) is 1023; clampSpeed(-100) is 0.
C31_ClampToDocumentedRange ==
  /\ (helper.fn = "clampPosition" /\ helper.model = "scs_series") =>
       /\ helper.out <= 1023
       /\ helper.arg = 2000 => helper.out = 1023
  /\ (helper.fn = "clampSpeed" /\ helper.arg = -100) => helper.out = 0

----------------------------------------------------------------------------
(* Properties of the codec, checked under SpecCodec *)

\* The frame was built by createPacket from at most 253 parameter bytes, the
\* most the one-byte length field (2 + count <= 255) can describe.
LengthFits == Len(cParams) <= 253

\* C6 as stated: decoding FF FF 05 02 00 F9 succeeds with id 5, length 2,
\* error 0 and no parameters.
C6_DecodesSpecExample ==
  (cStage = "decoded" /\ cPacket = <<255, 255, 5, 2, 0, 249>>) =>
    /\ cOut.ok
    /\ cOut.id = 5 /\ cOut.length = 2 /\ cOut.error = 0
    /\ cOut.parameters = <<>>

\* C6 amended: the status frame of id 5 with error 0 and no parameters is
\* FF FF 05 02 00 F8, which decodes to id 5, length 2, error 0, no parameters;
\* FF FF 05 02 00 F9 is rejected with CHECKSUM_ERROR carrying id 5.
C6_DecodesF8RejectsF9 ==
  cStage = "decoded" =>
    /\ cPacket = <<255, 255, 5, 2, 0, 248>> =>
         /\ cOut.ok
         /\ cOut.id = 5 /\ cOut.length = 2 /\ cOut.error = 0
         /\ cOut.parameters = <<>>
    /\ cPacket = <<255, 255, 5, 2, 0, 249>> =>
         ~cOut.ok /\ cOut.code = "CHECKSUM_ERROR" /\ cOut.deviceId = 5

C6_Witness ==
  /\ cStage = "decoded"
  /\ cSrc = "raw"
  /\ cPacket = <<255, 255, 5, 2, 0, 248>>
  /\ cOut.ok /\ cOut.id = 5

C8_AcceptedChecksumCoversFrame ==
  cStage = "decoded" =>
    /\ cOut.ok =>
         cOut.checksum =
           255 - ((cOut.id + cOut.length + cOut.error + SumBytes(cOut.parameters)) % 256)
    /\ ~cOut.ok => cOut.parameters = <<>> /\ cOut.id = -1

\* C9 as stated: for every parameter sequence b, decoding createPacket(id, x, b)
\* succeeds and returns b and id.
C9_RoundTripEveryLength ==
  (cStage = "decoded" /\ cSrc = "encoded") =>
    cOut.ok /\ cOut.parameters = cParams /\ cOut.id = cId

\* C9 amended: for every parameter sequence b of at most 253 bytes, decoding
\* createPacket(id, x, b) succeeds and returns b and id.
C9_RoundTripWhenLengthFits ==
  (cStage = "decoded" /\ cSrc = "encoded" /\ LengthFits) =>
    cOut.ok /\ cOut.parameters = cParams /\ cOut.id = cId

C9_Witness ==
  /\ cStage = "decoded"
  /\ cSrc = "encoded"
  /\ Len(cParams) = 253
  /\ cOut.ok /\ cOut.parameters = cParams

\* The layout C10 describes: FF FF, id, 2 + count, instruction, the parameters,
\* then the complement of the byte sum from the id through the last parameter.
C10_Layout ==
  /\ Len(cPacket) = 6 + Len(cParams)
  /\ At(cPacket, 0) = 255 /\ At(cPacket, 1) = 255
  /\ At(cPacket, 2) = cId
  /\ At(cPacket, 3) = 2 + Len(cParams)
  /\ At(cPacket, 4) = cByte4
  /\ \A i \in 1..Len(cParams) : At(cPacket, 4 + i) = cParams[i]
  /\ At(cPacket, 5 + Len(cParams)) =
       255 - ((cId + At(cPacket, 3) + cByte4 + SumBytes(cParams)) % 256)

\* C10 as stated: createPacket emits that layout for every parameter sequence,
\* and a PING to id 5 is FF FF 05 02 01 F7.
C10_EncodeLayoutEveryLength ==
  cStage = "encoded" =>
    /\ C10_Layout
    /\ (cId = 5 /\ cByte4 = PING /\ cParams = <<>>) =>
         cPacket = <<255, 255, 5, 2, 1, 247>>

\* C10 amended: createPacket emits that layout for every parameter sequence of
\* at most 253 bytes, and a PING to id 5 is FF FF 05 02 01 F7.
C10_EncodeLayoutWhenLengthFits ==
  (cStage = "encoded" /\ LengthFits) =>
    /\ C10_Layout
    /\ (cId = 5 /\ cByte4 = PING /\ cParams = <<>>) =>
         cPacket = <<255, 255, 5, 2, 1, 247>>

C10_Witness ==
  /\ cStage = "encoded"
  /\ cId = 5 /\ cByte4 = PING /\ cParams = <<>>
  /\ cPacket = <<255, 255, 5, 2, 1, 247>>

\* The conditions whose bit is set in error byte e.
SetConditions(e) ==
  (IF e % 2 >= 1 THEN {"voltage"} ELSE {}) \cup
  (IF e % 4 >= 2 THEN {"angle"} ELSE {}) \cup
  (IF e % 8 >= 4 THEN {"overheat"} ELSE {}) \cup
  (IF e % 16 >= 8 THEN {"range"} ELSE {}) \cup
  (IF e % 32 >= 16 THEN {"checksum"} ELSE {}) \cup
  (IF e % 64 >= 32 THEN {"overload"} ELSE {}) \cup
  (IF e % 128 >= 64 THEN {"instruction"} ELSE {})

\* C15: a response whose error byte is zero is a success, and any non-zero
\* error byte fails with HardwareError whose message names every condition
\* whose bit is set.
C15_AnyErrorBitFails ==
  cStage = "checked" =>
    LET e == At(cPacket, 4)
    IN /\ e = 0 => cOut.ok
       /\ e # 0 => /\ cOut.code = "HARDWARE_ERROR"
                   /\ cOut.message = SetConditions(e)

\* C16: parsePacket fails with InvalidResponse when given fewer than 6 bytes,
\* when the first two bytes are not FF FF, or when 4 + length field differs from
\* the number of bytes given, be it shorter or longer.
C16_MalformedIsInvalidResponse ==
  ( /\ cStage = "decoded"
    /\ \/ Len(cPacket) < 6
       \/ At(cPacket, 0) # 255 \/ At(cPacket, 1) # 255
       \/ 4 + At(cPacket, 3) # Len(cPacket) ) =>
    cOut.code = "INVALID_RESPONSE"

----------------------------------------------------------------------------
(* Properties of single-device operations, checked under Spec *)

\* C4: a read that succeeds returns the bytes the device sent in reply to its own
\* request, the registers at the requested address; never the late reply to an
\* earlier request.
C4_ReadReturnsOwnReply ==
  \A p \in Procs :
    (op[p].pc = "done" /\ op[p].kind = "read" /\ op[p].out.ok) =>
      op[p].value = MemBytes(op[p].id, op[p].address, op[p].length)

\* C5: no single-device operation writes a packet addressed to the broadcast id.
C5_NoPacketToBroadcast ==
  \A p \in Procs :
    \A i \in 1..Len(op[p].sent) : At(op[p].sent[i], 2) # BROADCAST_ID

\* C14: when disconnect is called while a transaction is suspended in a wait, the
\* wait is ended with a failure instead of running on to its timeout (none is
\* left pending once disconnect has returned), and the background receiver
\* appends nothing to the buffer after the port is closed.
C14_DisconnectEndsWaits ==
  [][/\ (~isOpen' /\ ~isConnected') => \A p \in Procs : op'[p].pc \notin Waiting
     /\ ~isOpen => Len(readBuffer') <= Len(readBuffer)]_vars

----------------------------------------------------------------------------
(* Properties of failures, checked under SpecFault *)

\* The kinds of failure the library documents.
Taxonomy ==
  {"CONNECTION_LOST", "TIMEOUT", "CHECKSUM_ERROR", "INVALID_RESPONSE",
   "HARDWARE_ERROR", "INVALID_PARAMETER"}

\* C23: an operation that has returned either completed with a result or failed
\* with one of the kinds ConnectionLost, Timeout, ChecksumError,
\* InvalidResponse, HardwareError, InvalidParameter.
C23_FailuresInTaxonomy ==
  \A p \in Procs :
    op[p].pc = "done" => (op[p].out.ok \/ op[p].out.code \in Taxonomy)

\* C25: no operation retries.  The number of request packets an operation has
\* written is the number of transactions it has begun and got to write (one
\* per transaction, never the same packet twice); an operation that failed
\* has written at most one packet; and once an operation has returned, nothing
\* more happens on its behalf until the caller starts another.
C25_NoRetry ==
  /\ [](\A p \in Procs :
          LET o == op[p] IN
          /\ o.pc = "write" => Len(o.sent) = o.stage
          /\ o.pc \in Waiting \cup {"settle"} => Len(o.sent) = o.stage + 1
          /\ o.pc = "done" => Len(o.sent) <= o.stage + 1
          /\ (o.pc = "done" /\ ~o.out.ok) => Len(o.sent) <= 1
          /\ \A i, j \in 1..Len(o.sent) : i # j => o.sent[i] # o.sent[j])
  /\ [][\A p \in Procs :
          (op[p].pc = "done" /\ op'[p] # op[p]) => started' = started + 1]_vars

C25_Witness ==
  /\ op[1].pc = "done" /\ op[1].out.code = "TIMEOUT"
  /\ op[1].kind = "read" /\ Len(op[1].sent) = 1
  /\ isOpen

----------------------------------------------------------------------------
(* Properties of a closed port, checked under SpecClosed *)

\* The call fails with ConnectionLost.
ConnectionLost(out) == out.code = "CONNECTION_LOST"

\* A facade operation called while the port is not open has failed with
\* ConnectionLost when the call returns, and has written nothing.
ClosedFacade ==
  [][(~isOpen /\ started' # started) =>
       /\ op'[1].pc = "done" /\ ConnectionLost(op'[1].out)
       /\ op'[1].sent = <<>>]_vars

\* A group execution that reaches its write while the port is not open fails
\* there with ConnectionLost, and has written nothing.
ClosedGroupWrite ==
  /\ [][(~isOpen /\ gr.pc = "write" /\ gr'.pc # "write") =>
         gr'.pc = "done" /\ ConnectionLost(gr'.out) /\ gr'.sent = <<>>]_vars
  /\ [][(~isOpen /\ gw.pc = "write" /\ gw'.pc # "write") =>
         gw'.pc = "done" /\ ConnectionLost(gw'.out) /\ gw'.sent = <<>>]_vars

\* C24: while the port is not open, every facade operation and every group
\* execution that is called fails with ConnectionLost and writes nothing.
C24_ClosedMeansConnectionLost ==
  /\ ClosedFacade
  /\ ClosedGroupWrite
  /\ [][(~isOpen /\ gr'.runs # gr.runs) =>
         gr'.sent = <<>> /\ (gr'.pc = "write" \/ ConnectionLost(gr'.out))]_vars
  /\ [][(~isOpen /\ gw'.runs # gw.runs) =>
         gw'.sent = <<>> /\ (gw'.pc = "write" \/ ConnectionLost(gw'.out))]_vars

\* C24, amended: the same for every facade operation and for every execution
\* of a group that has at least one entry; the execution of an empty group
\* fails with InvalidParameter, and writes nothing either.
C24_ClosedMeansConnectionLostUnlessEmpty ==
  /\ ClosedFacade
  /\ ClosedGroupWrite
  /\ [][(~isOpen /\ gr'.runs # gr.runs) =>
         /\ gr'.sent = <<>>
         /\ IF gr.idList # <<>> THEN gr'.pc = "write"
            ELSE gr'.pc = "done" /\ gr'.out.code = "INVALID_PARAMETER"]_vars
  /\ [][(~isOpen /\ gw'.runs # gw.runs) =>
         /\ gw'.sent = <<>>
         /\ IF gw.entries # <<>> THEN gw'.pc = "write"
            ELSE gw'.pc = "done" /\ gw'.out.code = "INVALID_PARAMETER"]_vars

C24_Witness ==
  /\ ~isOpen /\ ~isConnected
  /\ op[1].pc = "done" /\ ConnectionLost(op[1].out) /\ op[1].sent = <<>>
  /\ gw.pc = "done" /\ ConnectionLost(gw.out) /\ gw.sent = <<>>

\* The wait the operation is suspended in has run out unsatisfied: the step
\* that ends its transaction is a Timeout.
TimedOut(o) == o.pc \in Waiting /\ ~Ready(o.pc, o.headerAndLen, readBuffer)

\* C26: a ping that has returned succeeded exactly when its PING transaction
\* did (it got to the follow-up reads, stage >= 1); the end of a follow-up
\* read never changes the outcome of the ping; if the model-number read
\* failed both fields are 0, and if the firmware read timed out the firmware
\* field is 0 and the model number is kept.
C26_PingBestEffort ==
  /\ [](LET o == op[1] IN
        (o.pc = "done" /\ o.kind = "ping") =>
          /\ o.out.ok <=> o.stage >= 1
          /\ o.out.ok => Len(o.value) = 2
          /\ o.stage = 1 => o.value = <<0, 0>>)
  /\ [][LET o == op[1] IN
        (o.kind = "ping" /\ o.pc \in Waiting /\ op'[1].pc = "done") =>
          IF o.stage = 0
          THEN TimedOut(o) => ~op'[1].out.ok
          ELSE /\ op'[1].out.ok /\ op'[1].out = o.out
               /\ TimedOut(o) =>
                    op'[1].value = IF o.stage = 1 THEN <<0, 0>>
                                   ELSE <<o.value[1], 0>>]_vars

C26_Witness ==
  /\ op[1].pc = "done" /\ op[1].kind = "ping" /\ op[1].out.ok
  /\ op[1].stage = 2
  /\ op[1].value = <<makeWord(Mem(1, 3), Mem(1, 4)), 0>>

----------------------------------------------------------------------------
(* Properties of scan, checked under SpecScan *)

\* The ids from a to b in ascending order.
IdRange(a, b) == [i \in 1..(IF b >= a THEN b - a + 1 ELSE 0) |-> a + i - 1]

IsPing(packet) == At(packet, 4) = PING
Answers(id) == id \in Devices \ silent

\* The ids the PING packets among `sent` are addressed to, in the order written.
PingedIds(sent) ==
  LET pings == SelectSeq(sent, IsPing)
  IN [i \in 1..Len(pings) |-> At(pings[i], 2)]

\* C27: a scan that has returned has written one PING to every id of its range,
\* in ascending order, and did not fail because a ping failed; if no PING gave
\* up while reply bytes were still on their way, its results are those of the
\* ids of the range that answer, in ascending order.
C27_ScanFindsAnswering ==
  LET o == op[1] IN
  (o.pc = "done" /\ o.kind = "scan") =>
    IF ~o.out.ok
    THEN o.out.code = "CONNECTION_LOST" /\ o.sent = <<>>
    ELSE /\ PingedIds(o.sent) = IdRange(o.startId, o.endId)
         /\ ~o.late =>
              [i \in 1..Len(o.found) |-> o.found[i].id]
                = SelectSeq(IdRange(o.startId, o.endId), Answers)

----------------------------------------------------------------------------
(* Properties of setID and setBaudRate, checked under SpecConfig *)

\* C28: a setID whose newId is outside [0, 253] and that was not refused for a
\* closed port has failed with InvalidParameter, and has written nothing.
C28_SetIdRejectsBadId ==
  \A p \in Procs :
    LET o == op[p] IN
    ( /\ o.pc = "done" /\ o.kind = "setID"
      /\ (o.arg < 0 \/ o.arg > 253)
      /\ ~ConnectionLost(o.out) ) =>
      o.out.code = "INVALID_PARAMETER" /\ o.sent = <<>>

\* The register value the documentation gives for each baud rate.
BaudRegisterValue ==
  (1000000 :> 0) @@ (500000 :> 1) @@ (250000 :> 2) @@ (128000 :> 3) @@
  (115200 :> 4) @@ (57600 :> 5) @@ (38400 :> 6) @@ (19200 :> 7)

\* C30: setBaudRate with one of the eight documented baud rates writes the
\* documented register value, as one byte, to the Baud_Rate register and
\* nothing else; with any other baud rate it fails with InvalidParameter and
\* has written nothing; and getBaudRateValue(getActualBaudRate(v)) = v for
\* every v in 0..7.
C30_BaudRateTable ==
  /\ \A v \in 0..7 : getBaudRateValue(getActualBaudRate(v)) = v
  /\ LET o == op[1] IN
     o.kind = "setBaudRate" =>
       IF o.arg \in DOMAIN BaudRegisterValue
       THEN LET packet == createWritePacket(o.id, BAUD_RATE_ADDRESS,
                                            <<BaudRegisterValue[o.arg]>>)
            IN /\ o.pc = "write" => o.packet = packet /\ o.sent = <<>>
               /\ o.pc \in Waiting \cup {"settle", "delay"} => o.sent = <<packet>>
               /\ o.pc = "done" => o.sent \in {<<>>, <<packet>>}
               /\ (o.pc = "done" /\ o.out.ok) => o.sent = <<packet>>
       ELSE /\ o.pc = "done" /\ o.out.code = "INVALID_PARAMETER"
            /\ o.sent = <<>>

C30_Witness ==
  /\ op[1].pc = "done" /\ op[1].kind = "setBaudRate" /\ op[1].out.ok
  /\ op[1].arg = 115200
  /\ op[1].sent = <<createPacket(1, WRITE, <<6, 4>>)>>

----------------------------------------------------------------------------
(* Properties of writePosition, checked under SpecPosition *)

\* The WRITE packets of a writePosition with a speed, in the claimed order.
SpeedThenPosition(o) ==
  << createPacket(o.id, 3, <<46, o.speed % 256, o.speed \div 256>>),
     createPacket(o.id, 3, <<42, o.arg % 256, o.arg \div 256>>) >>

\* The call is a writePosition with a speed.
WithSpeed(o) == o.kind = "writePosition" /\ o.speed # -1

\* C39: writePosition with a speed writes Goal_Speed first and Goal_Position
\* second and nothing else; the position is written only after the speed write
\* was acknowledged by the device; when the speed write fails the call fails
\* and the position is never written.
C39_SpeedThenPosition ==
  /\ [](WithSpeed(op[1]) =>
          /\ Len(op[1].sent) <= 2
          /\ op[1].sent = SubSeq(SpeedThenPosition(op[1]), 1, Len(op[1].sent))
          /\ (op[1].pc = "done" /\ op[1].out.ok) => Len(op[1].sent) = 2
          /\ (op[1].pc = "done" /\ Len(op[1].sent) < 2) => ~op[1].out.ok)
  /\ [][(WithSpeed(op[1]) /\ Len(op[1].sent) = 1 /\ Len(op'[1].sent) = 2) =>
           (op[1].out.ok /\ op[1].out.id = op[1].id)]_vars

C39_Witness ==
  /\ op[1].kind = "writePosition" /\ op[1].speed = 1023
  /\ op[1].pc = "done" /\ ~op[1].out.ok
  /\ Len(op[1].sent) = 1
  /\ isOpen

----------------------------------------------------------------------------
(* Properties of the header search, checked under SpecSync *)

\* The one valid frame that follows the garbage: the reply to the read request.
SyncFrame == createPacket(op[1].id, 0, MemBytes(op[1].id, op[1].address, op[1].length))

\* The garbage followed by the frame is what the transaction has to receive.
SyncCase == Len(op[1].sent) = 1 /\ op[1].id \in Devices \ silent

\* Bytes the receive loop has taken out of the inbound buffer so far.
SyncTaken == Len(noise) + Len(SyncFrame) - Len(readBuffer) - Len(inbound)

\* The receive loop has discarded garbage only, has found the header where the
\* frame starts, and what it returns is that frame, with garbage and frame
\* consumed and nothing else.
InSync ==
  SyncCase =>
    /\ op[1].pc = "hdrWait" => SyncTaken <= Len(noise)
    /\ op[1].pc = "readHdr" => SyncTaken = Len(noise)
    /\ op[1].pc = "readPayload" =>
         /\ SyncTaken = Len(noise) + 4
         /\ op[1].headerAndLen = Slice(SyncFrame, 0, 4)
    /\ op[1].pc = "done" =>
         \/ op[1].out.ok = FALSE /\ op[1].out.code = "TIMEOUT"
         \/ /\ op[1].out = parsePacket(SyncFrame)
            /\ op[1].value = MemBytes(op[1].id, op[1].address, op[1].length)
            /\ SyncTaken = Len(noise) + Len(SyncFrame)

\* C3: for every garbage prefix, of any content (0xFF bytes included), followed
\* by one valid frame, the receive loop yields exactly that frame and discards
\* exactly the garbage.
C3_ResyncAfterAnyGarbage == InSync

\* Every byte the port has produced since the flush of the read, in arrival order.
Arrived ==
  noise \o (IF Len(op[1].sent) = 1 THEN DeviceReply(op[1].sent[1], silent, 0) ELSE <<>>)

\* The bytes read() has handed to the receive loop so far, by their number.
Taken == Len(Arrived) - Len(readBuffer) - Len(inbound)

\* C36: what read() has not yet delivered is the rest of what arrived, in arrival
\* order, so no byte appended while the transaction waits is lost, doubled or
\* moved; the bytes read(4) and read(pktLen - 4) deliver are the next bytes of
\* that stream; peekBuffer leaves the two header bytes it showed in the buffer.
C36_BufferIsFifo ==
  LET o == op[1] IN
  /\ Taken \in 0..Len(Arrived)
  /\ readBuffer \o inbound = SubSeq(Arrived, Taken + 1, Len(Arrived))
  /\ o.pc = "readHdr" => (Len(readBuffer) >= 2 /\ IsHeader(readBuffer))
  /\ o.pc = "readPayload" =>
       (Taken >= 4 /\ o.headerAndLen = SubSeq(Arrived, Taken - 3, Taken))
  /\ (o.pc = "done" /\ Len(o.sent) = 1 /\ o.out.code # "TIMEOUT") =>
       \E k \in 0..Taken :
         o.out = ReadOutcome(Validate(SubSeq(Arrived, k + 1, Taken), o.id), o.id, o.length)

C36_Witness ==
  /\ op[1].pc = "done" /\ op[1].out.ok
  /\ Len(noise) >= 2
  /\ Taken = Len(Arrived)

----------------------------------------------------------------------------
(* Properties of the addressee check, checked under SpecForeign *)

\* The read has ended on the frame that arrived first.
EndedOnForeign ==
  /\ op[1].pc = "done"
  /\ noise # <<>>
  /\ Len(op[1].sent) = 1
  /\ op[1].out.code # "TIMEOUT"

\* C32: a transaction returns a response only if the frame's id is the expected
\* id; a frame that fails the format or checksum test fails with that error
\* whatever its id, a valid frame of another id fails with InvalidResponse
\* whatever its error byte, only then the error bits count; the frame is
\* consumed whole and nothing after it is.
C32_AddresseeChecked ==
  LET o == op[1]
      f == parsePacket(noise)
  IN EndedOnForeign =>
       /\ o.out.ok => (f.ok /\ f.id = o.id /\ o.out.id = o.id)
       /\ ~f.ok => o.out = f
       /\ (f.ok /\ f.id # o.id) => o.out.code = "INVALID_RESPONSE"
       /\ (f.ok /\ f.id = o.id /\ f.error = 32) => o.out.code = "HARDWARE_ERROR"
       /\ readBuffer \o inbound = DeviceReply(o.sent[1], silent, 0)

C32_Witness ==
  /\ EndedOnForeign
  /\ parsePacket(noise).ok
  /\ parsePacket(noise).id # op[1].id
  /\ parsePacket(noise).error = 32
  /\ op[1].out.code = "INVALID_RESPONSE"
  /\ readBuffer \o inbound # <<>>

\* C38: readData(id, address, n) returns exactly n bytes or fails: a validated
\* response with fewer than n parameter bytes fails with InvalidResponse, one
\* with n or more yields its first n bytes.
C38_ReadDataExactLength ==
  LET o == op[1]
      f == parsePacket(noise)
  IN /\ (o.pc = "done" /\ o.kind = "read" /\ o.out.ok) => Len(o.value) = o.length
     /\ (EndedOnForeign /\ f.ok /\ f.id = o.id /\ f.error = 0) =>
          IF Len(f.parameters) < o.length
          THEN o.out.code = "INVALID_RESPONSE" /\ o.value = <<>>
          ELSE o.out.ok /\ o.value = SubSeq(f.parameters, 1, o.length)

C38_Witness ==
  /\ EndedOnForeign
  /\ parsePacket(noise).ok
  /\ parsePacket(noise).id = op[1].id
  /\ Len(parsePacket(noise).parameters) = 3
  /\ op[1].length = 2
  /\ op[1].value = <<72, 73>>

----------------------------------------------------------------------------
(* Properties of the timeouts, checked under SpecTime *)

\* C11: all suspend points of a transaction share one deadline: a transaction
\* is over no later than timeoutMs plus one polling tick after its request was
\* written, so none is still waiting after that.
C11_SingleDeadline ==
  \A p \in Procs : op[p].pc \in Waiting => op[p].age <= TimeoutMs + 1

\* No two adjacent 0xFF bytes: the header search finds no header in buf.
NoHeaderIn(buf) == \A i \in 1..(Len(buf) - 1) : ~(buf[i] = 255 /\ buf[i + 1] = 255)

\* The step ends the transaction of caller p while it searches for the header
\* and no header has arrived.
EndsHeaderless(p) ==
  /\ op[p].pc = "hdrWait" /\ op[p].stage = 0
  /\ NoHeaderIn(readBuffer)
  /\ op'[p].pc = "done"

\* The step ends the transaction of caller p with Timeout.
EndsInTimeout(p) ==
  /\ op[p].pc \in Waiting
  /\ op'[p].pc = "done" /\ op'[p].out.code = "TIMEOUT"

\* C12 (as stated): a transaction that never receives a frame header fails with
\* Timeout, and no Timeout is raised before timeoutMs have passed since the
\* request was written.
C12_NoHeaderMeansTimeout ==
  [][\A p \in Procs :
       /\ EndsHeaderless(p) => op'[p].out.code = "TIMEOUT"
       /\ EndsInTimeout(p) => op[p].age > TimeoutMs]_vars

\* C12 (amended): a transaction that receives no frame header, on a port that is
\* open when the header search runs, fails with Timeout, and no Timeout is raised
\* before timeoutMs have passed since the request was written.
C12_NoHeaderMeansTimeoutWhileOpen ==
  [][\A p \in Procs :
       /\ (EndsHeaderless(p) /\ isOpen) => op'[p].out.code = "TIMEOUT"
       /\ EndsInTimeout(p) => op[p].age > TimeoutMs]_vars

C12_Witness ==
  /\ op[1].pc = "done" /\ op[1].out.code = "TIMEOUT"
  /\ Len(op[1].sent) = 1 /\ isOpen
  /\ readBuffer # <<>> /\ NoHeaderIn(readBuffer)

----------------------------------------------------------------------------
(* Properties of termination, checked under SpecChatter *)

\* C13: every transaction eventually ends, with Timeout when no frame header
\* ever arrives, also while bytes that are no header keep arriving.
C13_TransactionEnds == (op[1].pc \in Waiting) ~> (op[1].pc = "done")

----------------------------------------------------------------------------
(* Properties of the group write, checked under SpecWrite *)

\* The ids of the stored entries, in the order the packet lists them.
EntryIds(entries) == [i \in 1..Len(entries) |-> entries[i].id]

\* C17: a group write whose entries were added for ids 1, 2, 3 in that order, on
\* a register of width 2, writes exactly one packet, a broadcast SYNC_WRITE with
\* parameters [address, width, (id, value bytes) per entry in the order the ids
\* were first added], and takes nothing out of the input buffer afterwards.
C17_OnePacketInAddOrder ==
  /\ []( ( /\ gw.pc = "done" /\ gw.out.ok
           /\ EntryIds(gw.entries) = <<1, 2, 3>> ) =>
         gw.sent = << createPacket(BROADCAST_ID, SYNC_WRITE,
                        <<GwAddress, GwDataLength, 1>> \o EntryOf(gw.entries, 1)
                        \o <<2>> \o EntryOf(gw.entries, 2)
                        \o <<3>> \o EntryOf(gw.entries, 3)) >> )
  /\ [][(gw.pc \in {"write", "settle"} /\ gw' # gw) => readBuffer' = readBuffer]_vars

C17_Witness ==
  /\ gw.pc = "done" /\ gw.out.ok
  /\ EntryIds(gw.entries) = <<1, 2, 3>>
  /\ EntryOf(gw.entries, 1) # EntryOf(gw.entries, 2)
  /\ readBuffer # <<>>

\* C18: addParam(id, data) fails with InvalidParameter when data.length differs
\* from the configured width and then leaves the stored entries unchanged;
\* otherwise it stores data for id in place of any previous value and leaves
\* the entries of the other ids as they were.
C18_AddParamChecksWidth ==
  [][(gw' # gw /\ gw'.last.call = "addParam") =>
       LET id == gw'.last.id
           data == gw'.last.data
       IN IF Len(data) # GwDataLength
          THEN /\ gw'.last.out.code = "INVALID_PARAMETER"
               /\ gw'.entries = gw.entries
          ELSE /\ gw'.last.out.ok
               /\ EntryOf(gw'.entries, id) = data
               /\ Cardinality({i \in 1..Len(gw'.entries) : gw'.entries[i].id = id}) = 1
               /\ \A j \in GwIds \ {id} :
                    /\ HasEntry(gw'.entries, j) = HasEntry(gw.entries, j)
                    /\ EntryOf(gw'.entries, j) = EntryOf(gw.entries, j)]_vars

C18_Witness ==
  /\ gw.last.call = "addParam"
  /\ gw.last.out.code = "INVALID_PARAMETER"
  /\ Len(gw.entries) = 2

\* C19: txPacket with no entries fails with InvalidParameter and has written
\* nothing to the transport: no flush, no packet.
C19_EmptyWriteRejected ==
  (gw.pc = "done" /\ gw.entries = <<>>) =>
    /\ gw.out.code = "INVALID_PARAMETER"
    /\ gw.flushes = 0
    /\ gw.sent = <<>>

C19_Witness ==
  /\ gw.pc = "done" /\ gw.entries = <<>>
  /\ isOpen /\ readBuffer # <<>>

\* The device ids a sync-write packet lists: FF FF FE len 83 address width, then
\* one id and GwDataLength value bytes per entry, then the checksum.
ListedIds(packet) ==
  {At(packet, 7 + k * (1 + GwDataLength)) :
     k \in 0..((Len(packet) - 8) \div (1 + GwDataLength) - 1)}

\* C29: addParam with a device id outside [0, 253] fails with InvalidParameter
\* and stores nothing, so every device id a transmitted sync-write packet
\* lists is in [0, 253].
C29_GroupIdsInRange ==
  /\ [][(gw' # gw /\ gw'.last.call = "addParam" /\ gw'.last.id \notin 0..253) =>
         /\ gw'.last.out.code = "INVALID_PARAMETER"
         /\ gw'.entries = gw.entries]_vars
  /\ [](\A i \in 1..Len(gw.sent) : ListedIds(gw.sent[i]) \subseteq 0..253)

\* C34: every stored entry holds exactly the configured number of bytes, and no
\* two entries are stored for the same id, after any sequence of addParam,
\* removeParam, clearParam and txPacket calls, failed ones included.
C34_EntriesWellFormed ==
  \A i \in 1..Len(gw.entries) :
    /\ Len(gw.entries[i].values) = GwDataLength
    /\ \A j \in 1..Len(gw.entries) : gw.entries[j].id = gw.entries[i].id => j = i

C34_Witness ==
  /\ gw.last.call = "addParam" /\ gw.last.out.ok
  /\ gw.runs >= 1
  /\ Len(gw.entries) = 2
  /\ gw.entries[1].id = gw.last.id
  /\ gw.entries[1].values = gw.last.data

\* C37: txPacket changes no stored entry, whether it returns or throws, and a
\* txPacket that follows a transmitted one with no addParam, removeParam or
\* clearParam between them writes the same packet again.
C37_TxPacketKeepsEntries ==
  /\ [][(gw' # gw /\ gw'.last.call = "txPacket") => gw'.entries = gw.entries]_vars
  /\ []((gw.prev # <<>> /\ gw.sent # <<>>) => gw.sent = <<gw.prev>>)

C37_Witness ==
  /\ gw.pc = "done" /\ gw.out.ok
  /\ gw.prev # <<>>
  /\ gw.sent = <<gw.prev>>
  /\ Len(gw.entries) = 2

----------------------------------------------------------------------------
(* Properties of concurrent callers, checked under SpecConc *)

\* The transaction of caller p is between its request write and the end of its
\* response read.
InFlight(p) == op[p].pc \in Waiting

\* C1: at most one transaction is in flight: no operation writes its request
\* while another operation's transaction is in flight.
C1_OneTransactionInFlight ==
  \A p, q \in Procs : p # q => ~(InFlight(p) /\ InFlight(q))

----------------------------------------------------------------------------
(* Properties of the group read, checked under SpecGroup *)

\* No status frame readResponse took carried a non-zero error byte.
NoErrorByte(out) == out.code # "HARDWARE_ERROR" /\ (out.ok => out.error = 0)

\* C2: when a group read over ids 1, 2, 3 returns, 2 being silent and the
\* replies of 1 and 3 having arrived, free of error bits, before any receive
\* gave up on them, the result map holds exactly 1 and 3, and getData(2) is
\* absent.
C2_SilentIdOnlyMissing ==
  ( /\ gr.pc = "done" /\ gr.out.ok
    /\ gr.ids = <<1, 2, 3>>
    /\ silent = {2}
    /\ \A i \in 1..Len(gr.outs) : NoErrorByte(gr.outs[i])
    /\ ~gr.late /\ inbound = <<>> ) =>
    /\ DOMAIN gr.dataMap = {1, 3}
    /\ getData(2) = <<>>

\* C20: txRxPacket with an empty id set fails with InvalidParameter and has
\* transmitted nothing.
C20_EmptyReadRejected ==
  (gr.pc = "done" /\ gr.idList = <<>>) =>
    /\ gr.out.code = "INVALID_PARAMETER"
    /\ gr.sent = <<>>

C20_Witness ==
  /\ gr.pc = "done" /\ gr.idList = <<>>
  /\ isOpen /\ gr.runs = 2

\* A receive that the claim counts as a failure for its id: readResponse threw,
\* or the status frame it returned has a non-zero error byte.
GrFailed(out) == ~out.ok \/ out.error # 0

\* C21: when txRxPacket has written its packet and returns, it has returned
\* normally, has called readResponse once for each id of the set in the order
\* the ids were added, and every id whose receive failed (timeout, checksum
\* error, id mismatch, hardware error bit) is absent from the results.
C21_OneReceivePerId ==
  (gr.pc = "done" /\ gr.sent # <<>>) =>
    /\ gr.out.ok
    /\ gr.tried = gr.ids
    /\ Len(gr.outs) = Len(gr.ids)
    /\ \A i \in 1..Len(gr.outs) :
         GrFailed(gr.outs[i]) => gr.ids[i] \notin DOMAIN gr.dataMap

\* The ids whose reply the latest execution accepted, with the bytes accepted.
Accepted ==
  {<<gr.ids[i], Slice(gr.outs[i].parameters, 0, GroupDataLength)>> :
     i \in {j \in 1..Len(gr.outs) : gr.outs[j].ok}}

\* C22: while txRxPacket runs and when it has returned, getData(id) has bytes
\* only for an id whose reply this execution accepted, and they are the bytes
\* of that reply; for every other id (failed, never added, or stored by an
\* earlier execution only) getData is absent.  A membership call made
\* afterwards adds no result and changes none.
C22_ResultsOfLatestRunOnly ==
  /\ [](gr.pc # "idle" =>
         \A id \in GroupIds :
           IF id \in DOMAIN gr.dataMap
           THEN <<id, getData(id)>> \in Accepted
           ELSE getData(id) = <<>>)
  /\ [][gr'.pc = "idle" =>
         \A id \in DOMAIN gr'.dataMap :
           id \in DOMAIN gr.dataMap /\ gr'.dataMap[id] = gr.dataMap[id]]_vars

C22_Witness ==
  /\ gr.pc = "done" /\ gr.runs = 2 /\ gr.out.ok
  /\ gr.ids = <<1, 2>>
  /\ gr.outs[1].ok /\ gr.outs[2].code = "TIMEOUT"
  /\ getData(1) = MemBytes(1, GroupAddress, GroupDataLength)
  /\ getData(2) = <<>>

\* The execution got past the empty check and its write was not refused.
GrTransmitted ==
  /\ gr.ids # <<>>
  /\ gr.out.code \notin {"CONNECTION_LOST", "WRITE_ERROR"}

\* C33: one txRxPacket flushes the input buffer once, before it writes, and
\* writes one packet, the broadcast SYNC_READ [address, width, id...]; while
\* it receives the per-id replies it writes nothing more and flushes no more.
C33_OneSolicitationOneFlush ==
  /\ gr.pc = "write" => (gr.flushes = 1 /\ gr.sent = <<>>)
  /\ (gr.pc \in Waiting \/ (gr.pc = "done" /\ GrTransmitted)) =>
       /\ gr.flushes = 1
       /\ Len(gr.sent) = 1
       /\ At(gr.sent[1], 2) = 254
       /\ At(gr.sent[1], 4) = 130
       /\ Slice(gr.sent[1], 5, Len(gr.sent[1]) - 1) =
            <<GroupAddress, GroupDataLength>> \o gr.ids

C33_Witness ==
  /\ gr.pc = "done" /\ gr.out.ok
  /\ gr.ids = <<1, 2>>
  /\ DOMAIN gr.dataMap = {1, 2}
  /\ gr.flushes = 1
  /\ Len(gr.sent) = 1

----------------------------------------------------------------------------
(* Properties of the group read's membership, checked under SpecMember *)

\* C35: at every moment, also while txRxPacket is suspended and addParam,
\* removeParam or clearParam are called, every id that has a cached result
\* is in the id set.
C35_ResultsWithinIdSet ==
  \A id \in DOMAIN gr.dataMap : Has(gr.idList, id)

====
